---- MODULE Spec2Model ----
(***************************************************************************)
(* Media Controller browser extension: the background volume store         *)
(* (background script), the per-tab agent (content.js) and the popup       *)
(* panel (popup.js), as communicating state machines.                      *)
(*                                                                         *)
(* Volumes are counted in thousandths (0..1000 for the DOM range 0..1).    *)
(***************************************************************************)
EXTENDS Integers, Sequences, FiniteSets, TLC

\* ------------------------------------------------------------------ bounds
MaxSets == 3        \* setVolume messages the store handles
MaxRestarts == 1    \* restarts of the background process
MaxScans == 2       \* query scans a caller asks one tab agent for
MaxCommands == 1    \* control commands a caller sends to the tab agents
MaxPageEvents == 2  \* changes a page makes to its media elements
MaxDoc == 6         \* media elements of a document a query is checked on
MaxRefreshes == 2   \* calls of refreshMediaList while the popup is open
MaxInputs == 1      \* input events on the site volume sliders
MaxReleases == 2    \* pointer-up events counted in one interaction episode
MaxFilterDoc == 2   \* media elements of a document the site filter is checked on
MaxClicks == 2      \* clicks on mute-tab buttons

\* ------------------------------------------------------------- value sets
Hosts == {"a.example", "b.example"}
Volumes == {300, 800}

\* An optional value: undefined (part_000:45 returns undefined for a missing key).
None == [some |-> FALSE, v |-> 0]
Some(x) == [some |-> TRUE, v |-> x]

\* A Map / plain object from hostname to volume: a function on a set of hosts.
EmptyMap == [h \in {} |-> 0]
AllMaps == UNION {[D -> Volumes] : D \in SUBSET Hosts}

\* Map.prototype.get
MapGet(m, h) == IF h \in DOMAIN m THEN Some(m[h]) ELSE None

\* Map.prototype.set: overwrites the entry of h or creates it
MapSet(m, h, v) == [k \in DOMAIN m \cup {h} |-> IF k = h THEN v ELSE m[k]]

\* Object.fromEntries(map): one property per entry
ObjectFromEntries(m) == [k \in DOMAIN m |-> m[k]]

\* new Map(Object.entries(obj)): one entry per own property
MapFromObject(o) == [k \in DOMAIN o |-> o[k]]

VARIABLES
    \* ---- background process (part_000)
    siteVolumes,      \* the in-memory Map hostname -> volume
    loadState,        \* loadVolumesFromStorage: "pending" | "resolved" | "done"
    loadResult,       \* what storage.local.get resolved with; once the load is done,
                      \* how it ended
    bgInbox,          \* runtime messages on their way to the background listener
    \* ---- browser.storage.local
    storage,          \* the durable siteVolumes key: [has, obj]
    storageQueue,     \* storage requests issued and not yet served, in issue order
    \* ---- observation of the store
    response,         \* the listener's response to the last message it handled
    lastSet,          \* per hostname, the volume of the last setVolume handled
    setThisLife,      \* per hostname, whether the running process handled a setVolume
    failedWrite,      \* per hostname, whether the write of the last setVolume the
                      \* running process handled for it has failed
    setCount,         \* setVolume messages handled so far
    restarts,         \* restarts of the background process so far
    ioFailed,         \* some storage request has failed
    startedEmpty,     \* durable storage held no siteVolumes key at the start
    \* ---- web pages and their tab agents (content.js)
    tabHost,          \* per tab, window.location.hostname
    doc,              \* per tab, the document's video/audio elements in document order
    el,               \* per media element, its state
    mediaElements,    \* per tab, the Map id -> element (ids are 1..N: a sequence)
    scanGen,          \* per tab, the number of query scans handled
    agentRequest,     \* the last message a tab agent handled
    agentReply,       \* the tab agent's reply to it
    \* ---- a caller of the tab agent
    clientView,       \* the last query reply the caller took its ids from
    commandCount,     \* control commands the tab agents have handled
    pageEvents,       \* changes the pages have made to their media elements
    tabInbox,         \* per tab, the messages on their way to its agent, in send order
    \* ---- popup panel (popup.js)
    isUserInteracting,   \* the flag of popup.js:6
    interactionTimeout,  \* the timer id of popup.js:7 names a pending timer
    timers,              \* quiet-delay timers pending in the event loop
    releases,            \* pointer-up events handled since the panel last left Polling
    popupSiteVolumes,    \* the popup's Map hostname -> locked volume (popup.js:10)
    cycles,              \* per call of refreshMediaList, where it stands
    refreshCount,        \* calls of refreshMediaList so far
    view,                \* the rendered site sections: hostname -> tab entries
    activeTab,           \* the foreground tab of the current window
    inputCount,          \* input events on site volume sliders so far
    lastInput,           \* the last such event: hostname, volume, and the rendered
                         \* (tab, id) pairs it addressed
    appContainer,        \* the children of #app-container (popup.js:4): the panel
                         \* shown beside the site sections, and the site sections
                         \* with their tab sections, in document order
    refreshInterval,     \* the interval of popup.js:460 is armed
    \* ---- the browser's tabs
    tabMuted,            \* per tab, the tab-level mute (tab.mutedInfo.muted)
    clickCount,          \* clicks on mute-tab buttons so far
    \* ---- volume enforcement of the tab agents (content.js:11-35, 285-305)
    contentLoaded,       \* per tab, whether content.js has run in its page
    applyCalls           \* the calls of applyStoredVolume made so far, in call order

storeVars == <<siteVolumes, loadState, loadResult, bgInbox, storage, storageQueue,
               response, lastSet, setThisLife, failedWrite, setCount, restarts, ioFailed,
               startedEmpty>>

agentVars == <<tabHost, doc, el, mediaElements, scanGen, agentRequest, agentReply,
               clientView,
               commandCount, pageEvents, tabInbox>>

\* The popup's document, its interval and the browser's tab-level mute.
renderVars == <<appContainer, refreshInterval, tabMuted, clickCount>>

popupVars == <<isUserInteracting, interactionTimeout, timers, releases,
               popupSiteVolumes, cycles,
               refreshCount, view, activeTab, inputCount, lastInput, renderVars>>

enforceVars == <<contentLoaded, applyCalls>>

vars == <<storeVars, agentVars, popupVars, enforceVars>>

\* What an action of the background or of storage leaves alone.
outsideStore == <<agentVars, popupVars, enforceVars>>

\* What an action of a page or of its tab agent leaves alone.
outsideAgent == <<storeVars, popupVars, enforceVars>>

\* ---------------------------------------------------------------- storage
NoData == [has |-> FALSE, obj |-> EmptyMap]
Data(o) == [has |-> TRUE, obj |-> o]

\* A storage request: its operation, the object written, and for a write the
\* setVolume that triggered it: its hostname and the process (counted by its
\* restarts) that handled it.
GetRequest == [op |-> "get", obj |-> EmptyMap, hostname |-> "", life |-> 0]
SetRequest(o, h, life) == [op |-> "set", obj |-> o, hostname |-> h, life |-> life]

NoResult == [ok |-> FALSE, data |-> NoData]

NoResponse == [cmd |-> "none", hostname |-> "", one |-> None, all |-> EmptyMap,
               loaded |-> FALSE]

\* ------------------------------------------------------ tab agent values
Tabs == {1, 2}

\* The tab agent's reply to a message: an acknowledgement label, "true" or
\* "false", or (for query) the list of media descriptors.
\* seq flips with every message the agent handles.
NoReply == [tab |-> 0, cmd |-> "none", value |-> "", list |-> <<>>, seq |-> 0]
Reply(t, cmd, value, list) ==
    [tab |-> t, cmd |-> cmd, value |-> value, list |-> list, seq |-> 1 - agentReply.seq]

\* A seek position: a finite number of seconds, or NaN.
Finite(x) == [finite |-> TRUE, s |-> x]
NaN == [finite |-> FALSE, s |-> 0]

\* A message to the tab agent (content.js:253-272: request.cmd, request.ids,
\* request.id, request.volume, request.currentTime). gen is the scan of the
\* query reply the sender took the ids from, 0 when it took them from none.
AgentMessage(cmd, ids, id, volume, currentTime, gen) ==
    [cmd |-> cmd, ids |-> ids, id |-> id, volume |-> volume,
     currentTime |-> currentTime, gen |-> gen]
NoRequest == AgentMessage("none", {}, 0, 0, NaN, 0)

\* The ids a caller holds and the scan of the tab that handed them out.
NoView == [gen |-> 0, ids |-> {}]

\* No page is open.
AgentIdle ==
    /\ tabHost = [t \in Tabs |-> "a.example"]
    /\ doc = [t \in Tabs |-> <<>>]
    /\ el = [e \in {} |-> 0]
    /\ mediaElements = [t \in Tabs |-> <<>>]
    /\ scanGen = [t \in Tabs |-> 0]
    /\ agentRequest = NoRequest
    /\ agentReply = NoReply
    /\ clientView = NoView
    /\ commandCount = 0
    /\ pageEvents = 0
    /\ tabInbox = [t \in Tabs |-> <<>>]

\* content.js has run in every page and no call of applyStoredVolume is under
\* way.
EnforceIdle ==
    /\ contentLoaded = [t \in Tabs |-> TRUE]
    /\ applyCalls = <<>>

\* A refreshMediaList call that has not been made.
IdleCycle == [pc |-> "idle", volumes |-> NoData, pending |-> {},
              replies |-> [t \in Tabs |-> [has |-> FALSE, list |-> <<>>]],
              mediaTabs |-> <<>>, active |-> 0, muted |-> [t \in Tabs |-> FALSE]]

\* What #app-container holds. panel: the initial loader, the empty-state
\* panel (popup.js:133-141), the error panel (popup.js:145-153) or none of
\* them; sections: the .site-section nodes in document order, each with its
\* data-hostname and its .tab-section nodes, each of these with its
\* data-tab-id and the mutedInfo.muted its header was created with.
Container(panel, sections) == [panel |-> panel, sections |-> sections]
InitialLoader == Container("loader", <<>>)

NoInput == [hostname |-> "", volume |-> 0, targets |-> {}]

\* The popup is closed.
PopupIdle ==
    /\ isUserInteracting = FALSE
    /\ interactionTimeout = FALSE
    /\ timers = 0
    /\ releases = 0
    /\ popupSiteVolumes = EmptyMap
    /\ cycles = [c \in 1..MaxRefreshes |-> IdleCycle]
    /\ refreshCount = 0
    /\ view = EmptyMap
    /\ activeTab = 1
    /\ inputCount = 0
    /\ lastInput = NoInput
    /\ appContainer = InitialLoader
    /\ refreshInterval = FALSE
    /\ tabMuted = [t \in Tabs |-> FALSE]
    /\ clickCount = 0

\* ------------------------------------------------- background (part_000)
BgMessage(cmd, h, v) == [cmd |-> cmd, hostname |-> h, volume |-> v]

\* A load that assigns whatever the read gave, a missing key as an empty table.
LoadedVolumesAlways(result, current) ==
    IF result.ok THEN MapFromObject(result.data.obj) ELSE current

\* A load that clears the table when the read failed or held no key.
LoadedVolumesCleared(result, current) ==
    IF result.ok /\ result.data.has THEN MapFromObject(result.data.obj) ELSE EmptyMap

\* The table the load leaves in memory (part_000:13-17): storage's mapping when
\* the read succeeded and held a siteVolumes key, else the table as it is.
LoadedVolumes(result, current) ==
    IF result.ok /\ result.data.has THEN MapFromObject(result.data.obj) ELSE current

\* What the listener answers to getVolume (part_000:45).
GetVolumeReply(h) == MapGet(siteVolumes, h)

\* What the listener answers to getAllVolumes (part_000:51).
GetAllVolumesReply == ObjectFromEntries(siteVolumes)

\* Process start (part_000:5, 36): an empty table, and loadVolumesFromStorage
\* runs to its await with storage.local.get issued.
BgStart(queue) ==
    /\ siteVolumes' = EmptyMap
    /\ loadState' = "pending"
    /\ loadResult' = NoResult
    /\ bgInbox' = <<>>
    /\ storageQueue' = Append(queue, GetRequest)
    /\ response' = NoResponse
    /\ setThisLife' = [h \in Hosts |-> FALSE]
    /\ failedWrite' = [h \in Hosts |-> FALSE]

\* browser.storage.local serves the requests of the extension in the order they
\* were issued. A get resolves with the durable key as it is when served.
StorageGet ==
    /\ storageQueue # <<>>
    /\ Head(storageQueue).op = "get"
    /\ loadState = "pending"
    /\ storageQueue' = Tail(storageQueue)
    /\ loadResult' = [ok |-> TRUE, data |-> storage]
    /\ loadState' = "resolved"
    /\ UNCHANGED <<siteVolumes, bgInbox, storage, response, lastSet, setThisLife, failedWrite,
                   setCount, restarts, ioFailed, startedEmpty>>
    /\ UNCHANGED outsideStore

\* storage.local.get rejects (part_000:18-20 catches it).
StorageGetFails ==
    /\ storageQueue # <<>>
    /\ Head(storageQueue).op = "get"
    /\ loadState = "pending"
    /\ storageQueue' = Tail(storageQueue)
    /\ loadResult' = NoResult
    /\ loadState' = "resolved"
    /\ ioFailed' = TRUE
    /\ UNCHANGED <<siteVolumes, bgInbox, storage, response, lastSet, setThisLife, failedWrite,
                   setCount, restarts, startedEmpty>>
    /\ UNCHANGED outsideStore

\* storage.local.set writes the snapshot it was called with.
StorageSet ==
    /\ storageQueue # <<>>
    /\ Head(storageQueue).op = "set"
    /\ storageQueue' = Tail(storageQueue)
    /\ storage' = Data(Head(storageQueue).obj)
    /\ UNCHANGED <<siteVolumes, loadState, loadResult, bgInbox, response, lastSet,
                   setThisLife, failedWrite, setCount, restarts, ioFailed, startedEmpty>>
    /\ UNCHANGED outsideStore

\* storage.local.set rejects (part_000:30-32 catches and logs it).
StorageSetFails ==
    /\ storageQueue # <<>>
    /\ Head(storageQueue).op = "set"
    /\ storageQueue' = Tail(storageQueue)
    /\ ioFailed' = TRUE
    /\ failedWrite' =
          [h \in Hosts |->
              \/ failedWrite[h]
              \/ /\ Head(storageQueue).life = restarts
                 /\ Head(storageQueue).hostname = h
                 /\ MapGet(Head(storageQueue).obj, h) = lastSet[h]]
    /\ UNCHANGED <<siteVolumes, loadState, loadResult, bgInbox, storage, response,
                   lastSet, setThisLife, setCount, restarts, startedEmpty>>
    /\ UNCHANGED outsideStore

\* How a load ended, its data dropped: failed (part_000:18-20), no siteVolumes
\* key (part_000:13 false), or a table taken from storage.
Settled(result) ==
    [ok |-> result.ok,
     data |-> IF result.ok /\ result.data.has THEN Data(EmptyMap) ELSE NoData]

\* loadVolumesFromStorage after its await (part_000:13-20).
LoadResume ==
    /\ loadState = "resolved"
    /\ siteVolumes' = LoadedVolumes(loadResult, siteVolumes)
    /\ loadState' = "done"
    /\ loadResult' = Settled(loadResult)
    /\ UNCHANGED <<bgInbox, storage, storageQueue, response, lastSet, setThisLife, failedWrite,
                   setCount, restarts, ioFailed, startedEmpty>>
    /\ UNCHANGED outsideStore

\* case 'getVolume' (part_000:44-46)
HandleGetVolume(m) ==
    /\ response' = [cmd |-> "getVolume", hostname |-> m.hostname,
                    one |-> GetVolumeReply(m.hostname), all |-> EmptyMap,
                    loaded |-> loadState = "done"]
    /\ UNCHANGED <<siteVolumes, storageQueue, lastSet, setThisLife, failedWrite, setCount>>

\* case 'getAllVolumes' (part_000:49-52)
HandleGetAllVolumes(m) ==
    /\ response' = [cmd |-> "getAllVolumes", hostname |-> "", one |-> None,
                    all |-> GetAllVolumesReply, loaded |-> loadState = "done"]
    /\ UNCHANGED <<siteVolumes, storageQueue, lastSet, setThisLife, failedWrite, setCount>>

\* case 'setVolume' (part_000:55-60), saveVolumesToStorage up to its await
\* (part_000:26-29): the snapshot written is the table right after the set.
HandleSetVolume(m) ==
    /\ siteVolumes' = MapSet(siteVolumes, m.hostname, m.volume)
    /\ storageQueue' = Append(storageQueue, SetRequest(ObjectFromEntries(siteVolumes'),
                                                        m.hostname, restarts))
    /\ lastSet' = [lastSet EXCEPT ![m.hostname] = Some(m.volume)]
    /\ setThisLife' = [setThisLife EXCEPT ![m.hostname] = TRUE]
    /\ failedWrite' = [failedWrite EXCEPT ![m.hostname] = FALSE]
    /\ setCount' = setCount + 1
    /\ response' = NoResponse

\* The runtime.onMessage listener (part_000:40-65).
BgHandle(m) ==
    CASE m.cmd = "getVolume" -> HandleGetVolume(m)
      [] m.cmd = "getAllVolumes" -> HandleGetAllVolumes(m)
      [] m.cmd = "setVolume" -> HandleSetVolume(m)

\* ------------------------------------------- the store's client and host
\* A getVolume message of a content script arrives and is handled.
OnGetVolume ==
    /\ \E h \in Hosts : BgHandle(BgMessage("getVolume", h, 0))
    /\ UNCHANGED <<loadState, loadResult, bgInbox, storage, restarts, ioFailed,
                   startedEmpty>>
    /\ UNCHANGED outsideStore

\* A getAllVolumes message of the popup arrives and is handled.
OnGetAllVolumes ==
    /\ BgHandle(BgMessage("getAllVolumes", "", 0))
    /\ UNCHANGED <<loadState, loadResult, bgInbox, storage, restarts, ioFailed,
                   startedEmpty>>
    /\ UNCHANGED outsideStore

\* A setVolume message of the popup arrives and is handled.
OnSetVolume ==
    /\ setCount < MaxSets
    /\ \E h \in Hosts, v \in Volumes : BgHandle(BgMessage("setVolume", h, v))
    /\ UNCHANGED <<loadState, loadResult, bgInbox, storage, restarts, ioFailed,
                   startedEmpty>>
    /\ UNCHANGED outsideStore

\* The browser restarts the background process: memory is lost, the read it had
\* issued is abandoned, and writes already handed to storage are still carried
\* out.
Restart ==
    /\ restarts < MaxRestarts
    /\ BgStart(SelectSeq(storageQueue, LAMBDA r : r.op = "set"))
    /\ restarts' = restarts + 1
    /\ UNCHANGED <<storage, lastSet, setCount, ioFailed, startedEmpty>>
    /\ UNCHANGED outsideStore

StoreInit ==
    /\ siteVolumes = EmptyMap
    /\ loadState = "pending"
    /\ loadResult = NoResult
    /\ bgInbox = <<>>
    /\ storage \in {NoData} \cup {Data(o) : o \in AllMaps}
    /\ storageQueue = <<GetRequest>>
    /\ response = NoResponse
    /\ lastSet = [h \in Hosts |-> None]
    /\ setThisLife = [h \in Hosts |-> FALSE]
    /\ failedWrite = [h \in Hosts |-> FALSE]
    /\ setCount = 0
    /\ restarts = 0
    /\ ioFailed = FALSE
    /\ startedEmpty = ~storage.has
    /\ AgentIdle
    /\ PopupIdle
    /\ EnforceIdle

StoreNext ==
    \/ StorageGet
    \/ StorageGetFails
    \/ StorageSet
    \/ StorageSetFails
    \/ LoadResume
    \/ OnGetVolume
    \/ OnGetAllVolumes
    \/ OnSetVolume
    \/ Restart

SpecStore == StoreInit /\ [][StoreNext]_vars

\* ------------------------------------------------ tab agent (content.js)
InstagramHosts == {"www.instagram.com"}
VisibleLimit == 3
OtherLimit == 1

\* window.innerHeight of the pages, and the size and margin of
\* content.js:90-93, in px.
ViewportHeight == 600
MainSize == 200
MainMargin == 50

\* getBoundingClientRect(), as far as the site filter reads it.
Rect(top, width, height) == [top |-> top, width |-> width, height |-> height]
Bottom(rect) == rect.top + rect.height

\* A large rectangle in the middle of the viewport, and a 100x100 one.
MainRect == Rect(100, 300, 300)
ThumbRect == Rect(100, 100, 100)

\* A media element. ready: readyState > 0 with a duration that is a number
\* above 0 (content.js:115-117); visible: isElementVisible (content.js:54-69),
\* which also depends on the horizontal position and the computed style;
\* rect: its bounding rectangle.
ElementAt(tag, paused, ready, visible, rect) ==
    [tag |-> tag, paused |-> paused, muted |-> FALSE, volume |-> 800,
     currentTime |-> 0, ready |-> ready, visible |-> visible, rect |-> rect]

\* An element that is (main) or is not taller and wider than 200px.
Element(tag, paused, ready, visible, main) ==
    ElementAt(tag, paused, ready, visible, IF main THEN MainRect ELSE ThumbRect)

\* HTMLMediaElement.volume accepts 0..1 and throws IndexSizeError otherwise.
VolumeAssignable(v) == v >= 0 /\ v <= 1000

\* HTMLMediaElement.currentTime throws TypeError for a non-finite number.
TimeAssignable(pos) == pos.finite

Range(seq) == {seq[i] : i \in DOMAIN seq}
Min(a, b) == IF a <= b THEN a ELSE b

\* Array.prototype.slice(0, n)
Slice(seq, n) == SubSeq(seq, 1, Min(n, Len(seq)))

\* isElementVisible (content.js:54-69)
IsElementVisible(e) == el[e].visible

\* An isMainVideo whose four comparisons admit the limits themselves.
IsMainVideoInclusive(rect) ==
    /\ rect.height >= MainSize
    /\ rect.width >= MainSize
    /\ rect.top >= -MainMargin
    /\ Bottom(rect) <= ViewportHeight + MainMargin

\* isMainVideo (content.js:89-94)
IsMainVideo(rect) ==
    /\ rect.height > MainSize
    /\ rect.width > MainSize
    /\ rect.top > -MainMargin
    /\ Bottom(rect) < ViewportHeight + MainMargin

\* shouldIncludeInstagramMedia (content.js:72-100)
ShouldIncludeInstagramMedia(t, e) ==
    IF tabHost[t] \notin InstagramHosts THEN TRUE
    ELSE IF ~el[e].paused THEN TRUE
    ELSE IF el[e].tag = "audio" THEN TRUE
    ELSE IsMainVideo(el[e].rect)

\* mediaInfo (content.js:133-145) of the element scanned under id
MediaInfo(e, id) ==
    [id |-> id, type |-> el[e].tag, playing |-> ~el[e].paused, volume |-> el[e].volume,
     muted |-> el[e].muted, currentTime |-> el[e].currentTime,
     visible |-> IsElementVisible(e) \/ el[e].tag = "audio"]

\* The ids, in scan order, whose element passes the metadata test and the site
\* filter (content.js:114-122).
ReportedIds(t) ==
    SelectSeq([i \in 1..Len(doc[t]) |-> i],
              LAMBDA i : el[doc[t][i]].ready /\ ShouldIncludeInstagramMedia(t, doc[t][i]))

ScanInfos(t) == [k \in 1..Len(ReportedIds(t)) |->
                    MediaInfo(doc[t][ReportedIds(t)[k]], ReportedIds(t)[k])]

playingElements(t) == SelectSeq(ScanInfos(t), LAMBDA d : d.playing)
visibleElements(t) == SelectSeq(ScanInfos(t), LAMBDA d : ~d.playing /\ d.visible)
otherElements(t) == SelectSeq(ScanInfos(t), LAMBDA d : ~d.playing /\ ~d.visible)

\* A result that lists every paused element that passed the filters.
QueryResultUnsliced(t) ==
    playingElements(t) \o visibleElements(t) \o otherElements(t)

\* handleQuery's result (content.js:159-165)
QueryResult(t) ==
    playingElements(t) \o Slice(visibleElements(t), VisibleLimit)
                       \o Slice(otherElements(t), OtherLimit)

\* A mapping that holds only the elements that are reported, under ids that
\* count them alone (count advanced only past a reported element).
IdMappingReportedOnly(t) ==
    [k \in 1..Len(ReportedIds(t)) |-> doc[t][ReportedIds(t)[k]]]

\* The mapping handleQuery builds (content.js:107-112, 120, 156): cleared,
\* then count -> element for every video/audio element in document order,
\* count starting at 1 and advanced past every element, reported or not.
IdMapping(t) == [count \in 1..Len(doc[t]) |-> doc[t][count]]

\* handleQuery (content.js:102-166): the mapping is rebuilt over every
\* video/audio element of the document, in document order.
HandleQuery(t) ==
    /\ mediaElements' = [mediaElements EXCEPT ![t] = IdMapping(t)]
    /\ scanGen' = [scanGen EXCEPT ![t] = @ + 1]
    /\ agentReply' = Reply(t, "query", "list", QueryResult(t))
    /\ UNCHANGED el

\* Every element of the mapping, whatever the ids.
TargetsAll(t, ids) == Range(mediaElements[t])

\* The elements the ids denote in the current mapping: mediaElements.has(id),
\* mediaElements.get(id) (content.js:169-171).
Targets(t, ids) == {mediaElements[t][i] : i \in ids \cap DOMAIN mediaElements[t]}

\* handlePause (content.js:168-175)
HandlePause(t, ids) ==
    /\ el' = [e \in DOMAIN el |->
                IF e \in Targets(t, ids) THEN [el[e] EXCEPT !.paused = TRUE] ELSE el[e]]
    /\ agentReply' = Reply(t, "pause", "play", <<>>)
    /\ UNCHANGED <<mediaElements, scanGen>>

\* A pauseAll that stops only the elements that take part in query results.
HandlePauseAllReady(t) ==
    /\ el' = [e \in DOMAIN el |->
                IF e \in Range(mediaElements[t]) /\ ~el[e].paused /\ el[e].ready
                THEN [el[e] EXCEPT !.paused = TRUE] ELSE el[e]]
    /\ agentReply' = Reply(t, "pauseAll", "ok", <<>>)
    /\ UNCHANGED <<mediaElements, scanGen>>

\* handlePauseAll (content.js:177-184)
HandlePauseAll(t) ==
    /\ el' = [e \in DOMAIN el |->
                IF e \in Range(mediaElements[t]) /\ ~el[e].paused
                THEN [el[e] EXCEPT !.paused = TRUE] ELSE el[e]]
    /\ agentReply' = Reply(t, "pauseAll", "ok", <<>>)
    /\ UNCHANGED <<mediaElements, scanGen>>

\* handlePlay (content.js:186-193); play() starts the element.
HandlePlay(t, ids) ==
    /\ el' = [e \in DOMAIN el |->
                IF e \in Targets(t, ids) THEN [el[e] EXCEPT !.paused = FALSE] ELSE el[e]]
    /\ agentReply' = Reply(t, "play", "pause", <<>>)
    /\ UNCHANGED <<mediaElements, scanGen>>

\* handleMute (content.js:195-202)
HandleMute(t, ids) ==
    /\ el' = [e \in DOMAIN el |->
                IF e \in Targets(t, ids) THEN [el[e] EXCEPT !.muted = TRUE] ELSE el[e]]
    /\ agentReply' = Reply(t, "mute", "unmute", <<>>)
    /\ UNCHANGED <<mediaElements, scanGen>>

\* handleUnMute (content.js:204-211)
HandleUnMute(t, ids) ==
    /\ el' = [e \in DOMAIN el |->
                IF e \in Targets(t, ids) THEN [el[e] EXCEPT !.muted = FALSE] ELSE el[e]]
    /\ agentReply' = Reply(t, "unmute", "mute", <<>>)
    /\ UNCHANGED <<mediaElements, scanGen>>

\* A volume setter without the try/catch: the level is stored as given and
\* success is reported.
HandleVolumeUnguarded(t, id, volume) ==
    /\ IF id \in DOMAIN mediaElements[t]
       THEN /\ el' = [el EXCEPT ![mediaElements[t][id]].volume = volume]
            /\ agentReply' = Reply(t, "volume", "true", <<>>)
       ELSE /\ el' = el
            /\ agentReply' = Reply(t, "volume", "false", <<>>)
    /\ UNCHANGED <<mediaElements, scanGen>>

\* handleVolume (content.js:213-223)
HandleVolume(t, id, volume) ==
    /\ IF id \in DOMAIN mediaElements[t]
       THEN IF VolumeAssignable(volume)
            THEN /\ el' = [el EXCEPT ![mediaElements[t][id]].volume = volume]
                 /\ agentReply' = Reply(t, "volume", "true", <<>>)
            ELSE /\ el' = el
                 /\ agentReply' = Reply(t, "volume", "false", <<>>)
       ELSE /\ el' = el
            /\ agentReply' = Reply(t, "volume", "false", <<>>)
    /\ UNCHANGED <<mediaElements, scanGen>>

\* handleCurrentTime (content.js:225-235)
HandleCurrentTime(t, id, currentTime) ==
    /\ IF id \in DOMAIN mediaElements[t]
       THEN IF TimeAssignable(currentTime)
            THEN /\ el' = [el EXCEPT ![mediaElements[t][id]].currentTime = currentTime.s]
                 /\ agentReply' = Reply(t, "currentTime", "true", <<>>)
            ELSE /\ el' = el
                 /\ agentReply' = Reply(t, "currentTime", "false", <<>>)
       ELSE /\ el' = el
            /\ agentReply' = Reply(t, "currentTime", "false", <<>>)
    /\ UNCHANGED <<mediaElements, scanGen>>

\* handleFocus (content.js:237-251): the smooth scroll it requests runs after
\* the handler has returned.
HandleFocus(t, id) ==
    /\ agentReply' = Reply(t, "focus",
                           IF id \in DOMAIN mediaElements[t] THEN "true" ELSE "false", <<>>)
    /\ UNCHANGED <<el, mediaElements, scanGen>>

\* The runtime.onMessage listener of the tab (content.js:253-276).
AgentHandle(t, m) ==
    /\ agentRequest' = m
    /\ CASE m.cmd = "query" -> HandleQuery(t)
         [] m.cmd = "play" -> HandlePlay(t, m.ids)
         [] m.cmd = "pause" -> HandlePause(t, m.ids)
         [] m.cmd = "pauseAll" -> HandlePauseAll(t)
         [] m.cmd = "mute" -> HandleMute(t, m.ids)
         [] m.cmd = "unmute" -> HandleUnMute(t, m.ids)
         [] m.cmd = "volume" -> HandleVolume(t, m.id, m.volume)
         [] m.cmd = "currentTime" -> HandleCurrentTime(t, m.id, m.currentTime)
         [] m.cmd = "focus" -> HandleFocus(t, m.id)
         [] OTHER -> /\ agentReply' = Reply(t, m.cmd, "false", <<>>)
                     /\ UNCHANGED <<el, mediaElements, scanGen>>

\* ------------------------------------------------ one page and its caller
AgentTabs == {1}
AgentElems == {1, 2}
CallerIds == 1..(Cardinality(AgentElems) + 1)
Positions == {5}
VolumeInputs == {300, 1500}
PositionInputs == {Finite(x) : x \in Positions} \cup {NaN}

CallerCommands == {"play", "pause", "pauseAll", "mute", "unmute", "volume",
                   "currentTime", "focus"}

\* The scan the caller's ids come from: that of its view when it holds them
\* all from the view, none otherwise.
CallerGen(ids) == IF ids # {} /\ ids \subseteq clientView.ids THEN clientView.gen ELSE 0

\* The caller sends query and the agent handles it.
OnQuery ==
    /\ \E t \in AgentTabs :
         /\ scanGen[t] < MaxScans
         /\ AgentHandle(t, AgentMessage("query", {}, 0, 0, NaN, 0))
    /\ UNCHANGED <<tabHost, doc, clientView, commandCount, pageEvents, tabInbox>>
    /\ UNCHANGED outsideAgent

\* The caller takes the reply of the query just handled as its view.
ClientAdopt ==
    /\ agentReply.cmd = "query"
    /\ clientView' = [gen |-> scanGen[agentReply.tab],
                      ids |-> {agentReply.list[k].id : k \in DOMAIN agentReply.list}]
    /\ clientView' # clientView
    /\ UNCHANGED <<tabHost, doc, el, mediaElements, scanGen, agentRequest, agentReply,
                   commandCount, pageEvents, tabInbox>>
    /\ UNCHANGED outsideAgent

OnIdsCommand(cmd) ==
    /\ commandCount < MaxCommands
    /\ commandCount' = commandCount + 1
    /\ \E t \in AgentTabs, ids \in SUBSET CallerIds :
         AgentHandle(t, AgentMessage(cmd, ids, 0, 0, NaN, CallerGen(ids)))
    /\ UNCHANGED <<tabHost, doc, clientView, pageEvents, tabInbox>>
    /\ UNCHANGED outsideAgent

OnPlay == "play" \in CallerCommands /\ OnIdsCommand("play")
OnPause == "pause" \in CallerCommands /\ OnIdsCommand("pause")
OnMute == "mute" \in CallerCommands /\ OnIdsCommand("mute")
OnUnMute == "unmute" \in CallerCommands /\ OnIdsCommand("unmute")

OnPauseAll ==
    /\ commandCount < MaxCommands
    /\ commandCount' = commandCount + 1
    /\ \E t \in AgentTabs :
         AgentHandle(t, AgentMessage("pauseAll", {}, 0, 0, NaN, 0))
    /\ UNCHANGED <<tabHost, doc, clientView, pageEvents, tabInbox>>
    /\ UNCHANGED outsideAgent

OnVolume ==
    /\ commandCount < MaxCommands
    /\ commandCount' = commandCount + 1
    /\ \E t \in AgentTabs, id \in CallerIds, v \in VolumeInputs :
         AgentHandle(t, AgentMessage("volume", {}, id, v, NaN, CallerGen({id})))
    /\ UNCHANGED <<tabHost, doc, clientView, pageEvents, tabInbox>>
    /\ UNCHANGED outsideAgent

OnCurrentTime ==
    /\ commandCount < MaxCommands
    /\ commandCount' = commandCount + 1
    /\ \E t \in AgentTabs, id \in CallerIds, pos \in PositionInputs :
         AgentHandle(t, AgentMessage("currentTime", {}, id, 0, pos, CallerGen({id})))
    /\ UNCHANGED <<tabHost, doc, clientView, pageEvents, tabInbox>>
    /\ UNCHANGED outsideAgent

OnFocus ==
    /\ commandCount < MaxCommands
    /\ commandCount' = commandCount + 1
    /\ \E t \in AgentTabs, id \in CallerIds :
         AgentHandle(t, AgentMessage("focus", {}, id, 0, NaN, CallerGen({id})))
    /\ UNCHANGED <<tabHost, doc, clientView, pageEvents, tabInbox>>
    /\ UNCHANGED outsideAgent

\* The page (or its user) starts or stops an element of the document.
PageToggle ==
    /\ pageEvents < MaxPageEvents
    /\ pageEvents' = pageEvents + 1
    /\ \E t \in AgentTabs : \E e \in Range(doc[t]) :
         el' = [el EXCEPT ![e].paused = ~el[e].paused]
    /\ UNCHANGED <<tabHost, doc, mediaElements, scanGen, agentRequest, agentReply, clientView,
                   commandCount, tabInbox>>
    /\ UNCHANGED outsideAgent

\* An element's metadata arrives (loadedmetadata).
ElementLoaded ==
    /\ pageEvents < MaxPageEvents
    /\ pageEvents' = pageEvents + 1
    /\ \E t \in AgentTabs : \E e \in Range(doc[t]) :
         /\ ~el[e].ready
         /\ el' = [el EXCEPT ![e].ready = TRUE]
    /\ UNCHANGED <<tabHost, doc, mediaElements, scanGen, agentRequest, agentReply, clientView,
                   commandCount, tabInbox>>
    /\ UNCHANGED outsideAgent

InsertAt(seq, k, e) == SubSeq(seq, 1, k) \o <<e>> \o SubSeq(seq, k + 1, Len(seq))
Without(seq, e) == SelectSeq(seq, LAMBDA x : x # e)

\* The page inserts a media element into the document.
InsertElement ==
    /\ pageEvents < MaxPageEvents
    /\ pageEvents' = pageEvents + 1
    /\ \E t \in AgentTabs : \E e \in AgentElems \ Range(doc[t]), k \in 0..Len(doc[t]) :
         doc' = [doc EXCEPT ![t] = InsertAt(doc[t], k, e)]
    /\ UNCHANGED <<tabHost, el, mediaElements, scanGen, agentRequest, agentReply, clientView,
                   commandCount, tabInbox>>
    /\ UNCHANGED outsideAgent

\* The page removes a media element from the document, which pauses it; the
\* agent's mapping keeps the element until the next scan.
RemoveElement ==
    /\ pageEvents < MaxPageEvents
    /\ pageEvents' = pageEvents + 1
    /\ \E t \in AgentTabs : \E e \in Range(doc[t]) :
         /\ doc' = [doc EXCEPT ![t] = Without(doc[t], e)]
         /\ el' = [el EXCEPT ![e].paused = TRUE]
    /\ UNCHANGED <<tabHost, mediaElements, scanGen, agentRequest, agentReply, clientView,
                   commandCount, tabInbox>>
    /\ UNCHANGED outsideAgent

StoreIdle ==
    /\ siteVolumes = EmptyMap
    /\ loadState = "done"
    /\ loadResult = NoResult
    /\ bgInbox = <<>>
    /\ storage = NoData
    /\ storageQueue = <<>>
    /\ response = NoResponse
    /\ lastSet = [h \in Hosts |-> None]
    /\ setThisLife = [h \in Hosts |-> FALSE]
    /\ failedWrite = [h \in Hosts |-> FALSE]
    /\ setCount = 0
    /\ restarts = 0
    /\ ioFailed = FALSE
    /\ startedEmpty = TRUE

\* A page with two video elements: one paused with its metadata loaded, one
\* muted and started before its metadata has arrived.
AgentInit ==
    /\ tabHost = [t \in Tabs |-> "a.example"]
    /\ doc = [t \in Tabs |-> IF t \in AgentTabs THEN <<1, 2>> ELSE <<>>]
    /\ el = [e \in AgentElems |->
                [Element("video", e = 1, e = 1, TRUE, TRUE) EXCEPT !.muted = (e = 2)]]
    /\ mediaElements = [t \in Tabs |-> <<>>]
    /\ scanGen = [t \in Tabs |-> 0]
    /\ agentRequest = NoRequest
    /\ agentReply = NoReply
    /\ clientView = NoView
    /\ commandCount = 0
    /\ pageEvents = 0
    /\ tabInbox = [t \in Tabs |-> <<>>]
    /\ StoreIdle
    /\ PopupIdle
    /\ EnforceIdle

AgentNext ==
    \/ OnQuery
    \/ ClientAdopt
    \/ OnPlay
    \/ OnPause
    \/ OnPauseAll
    \/ OnMute
    \/ OnUnMute
    \/ OnVolume
    \/ OnCurrentTime
    \/ OnFocus
    \/ PageToggle
    \/ ElementLoaded
    \/ InsertElement
    \/ RemoveElement

SpecAgent == AgentInit /\ [][AgentNext]_vars

\* ------------------------------------------------ query on any document
\* The kinds of element a document is drawn from: playing (small, which the
\* Instagram filter lets through because it plays), paused and on screen,
\* paused audio, paused off screen and small (which the Instagram filter
\* drops), and playing without metadata (which the metadata test drops).
QueryKinds ==
    {Element("video", FALSE, TRUE, TRUE, FALSE),
     Element("video", TRUE, TRUE, TRUE, TRUE),
     [Element("audio", TRUE, TRUE, FALSE, FALSE) EXCEPT !.volume = 300],
     [Element("video", TRUE, TRUE, FALSE, FALSE) EXCEPT !.muted = TRUE],
     Element("video", FALSE, FALSE, TRUE, TRUE)}

QueryHosts == {"a.example", "www.instagram.com"}

\* Any document of up to MaxDoc media elements, on an ordinary site or on
\* Instagram, before the first query.
QueryInit ==
    /\ tabHost \in {[t \in Tabs |-> h] : h \in QueryHosts}
    /\ \E n \in 0..MaxDoc :
         /\ doc = [t \in Tabs |-> IF t \in AgentTabs THEN [i \in 1..n |-> i] ELSE <<>>]
         /\ el \in [1..n -> QueryKinds]
    /\ mediaElements = [t \in Tabs |-> <<>>]
    /\ scanGen = [t \in Tabs |-> 0]
    /\ agentRequest = NoRequest
    /\ agentReply = NoReply
    /\ clientView = NoView
    /\ commandCount = 0
    /\ pageEvents = 0
    /\ tabInbox = [t \in Tabs |-> <<>>]
    /\ StoreIdle
    /\ PopupIdle
    /\ EnforceIdle

QueryNext == OnQuery

SpecQuery == QueryInit /\ [][QueryNext]_vars

\* ------------------------------------------- site filter on any geometry
\* Bounding rectangles at and next to each limit of isMainVideo, one limit at
\* a time, and a 100x100 rectangle below the viewport.
FilterRects ==
    {Rect(100, 300, h) : h \in {MainSize, MainSize + 1}}
      \cup {Rect(100, w, 300) : w \in {MainSize, MainSize + 1}}
      \cup {Rect(top, 300, 300) : top \in {-MainMargin, 1 - MainMargin}}
      \cup {Rect(ViewportHeight + MainMargin - b, 300, 300) : b \in {300, 301}}
      \cup {Rect(ViewportHeight + 300, 100, 100)}

\* Elements with metadata, video or audio, playing or paused, of each of
\* these rectangles; the one below the viewport is not visible.
FilterKinds ==
    {ElementAt(tag, paused, TRUE, rect.top < ViewportHeight + 100, rect) :
        tag \in {"video", "audio"}, paused \in BOOLEAN, rect \in FilterRects}

\* Any document of 1..MaxFilterDoc such elements, on an ordinary site or on
\* Instagram, before the first query.
FilterInit ==
    /\ tabHost \in {[t \in Tabs |-> h] : h \in QueryHosts}
    /\ \E n \in 1..MaxFilterDoc :
         /\ doc = [t \in Tabs |-> IF t \in AgentTabs THEN [i \in 1..n |-> i] ELSE <<>>]
         /\ el \in [1..n -> FilterKinds]
    /\ mediaElements = [t \in Tabs |-> <<>>]
    /\ scanGen = [t \in Tabs |-> 0]
    /\ agentRequest = NoRequest
    /\ agentReply = NoReply
    /\ clientView = NoView
    /\ commandCount = 0
    /\ pageEvents = 0
    /\ tabInbox = [t \in Tabs |-> <<>>]
    /\ StoreIdle
    /\ PopupIdle
    /\ EnforceIdle

FilterNext == OnQuery

SpecFilter == FilterInit /\ [][FilterNext]_vars

\* ------------------------------------------------ popup panel (popup.js)
\* A tab of the window that runs no tab agent (a page with no content script).
OtherTab == 3
PanelActiveTabs == Tabs \cup {OtherTab}

\* The levels a site volume slider is moved to.
SliderVolumes == Volumes

NoList == [has |-> FALSE, list |-> <<>>]
SomeList(l) == [has |-> TRUE, list |-> l]

\* new URL(tab.url).hostname
Hostname(t) == tabHost[t]

\* A message on its way, with the refreshMediaList call that awaits its
\* response (0: nobody awaits it).
Envelope(m, c) == [m |-> m, cycle |-> c]

\* A grouping in which every tab entry replaces the section of its hostname.
GroupByHostnameLast(mediaTabs) ==
    [h \in {Hostname(mediaTabs[k].tab) : k \in DOMAIN mediaTabs} |->
        LET same == SelectSeq(mediaTabs, LAMBDA mt : Hostname(mt.tab) = h)
        IN  <<same[Len(same)]>>]

\* popup.js:78-84: the tab entries grouped by hostname, in the order pushed.
GroupByHostname(mediaTabs) ==
    [h \in {Hostname(mediaTabs[k].tab) : k \in DOMAIN mediaTabs} |->
        SelectSeq(mediaTabs, LAMBDA mt : Hostname(mt.tab) = h)]

\* A grouping that ignores the foreground tab.
SitesGroupedAlways(mediaTabs, active) == GroupByHostname(mediaTabs)

\* popup.js:71-85: the site groups of a refresh.
Sites(mediaTabs, active) ==
    LET activeTabWithMedia == SelectSeq(mediaTabs, LAMBDA mt : mt.tab = active)
    IN  IF activeTabWithMedia # <<>>
        THEN [h \in {Hostname(active)} |-> <<Head(activeTabWithMedia)>>]
        ELSE GroupByHostname(mediaTabs)

\* One volume command per media descriptor of a list, in list order
\* (popup.js:58, 220).
VolumeCommands(list, volume) ==
    [k \in DOMAIN list |->
        Envelope(AgentMessage("volume", {}, list[k].id, volume, NaN, 0), 0)]

\* Corrective commands for every media a tab returned, whatever it reported.
CorrectiveCommandsToAll(t, list) ==
    LET locked == MapGet(popupSiteVolumes, Hostname(t))
    IN  IF list # <<>> /\ locked.some THEN VolumeCommands(list, locked.v) ELSE <<>>

\* The corrective commands of popup.js:54-61 for the media a tab returned.
CorrectiveCommands(t, list) ==
    LET locked == MapGet(popupSiteVolumes, Hostname(t))
    IN  IF list # <<>> /\ locked.some
        THEN VolumeCommands(SelectSeq(list, LAMBDA media : media.volume # locked.v),
                            locked.v)
        ELSE <<>>

\* The commands the input handler of a site slider sends to tab t
\* (popup.js:218-222).
SliderCommands(tabs, t, volume) ==
    LET mine == SelectSeq(tabs, LAMBDA mt : mt.tab = t)
    IN  IF mine = <<>> THEN <<>>
        ELSE VolumeCommands(Head(mine).mediaElements, volume)

\* The (tab, id) pairs a site section was rendered with.
SectionTargets(tabs) ==
    UNION {{<<tabs[k].tab, tabs[k].mediaElements[j].id>> :
               j \in DOMAIN tabs[k].mediaElements} : k \in DOMAIN tabs}

\* The keys of the site groups in the Map's insertion order (popup.js:73-85):
\* the foreground tab's hostname alone, or the hostnames in the order their
\* first tab entry was pushed.
SiteOrder(mediaTabs, active) ==
    IF \E k \in DOMAIN mediaTabs : mediaTabs[k].tab = active
    THEN <<Hostname(active)>>
    ELSE LET first == SelectSeq([k \in DOMAIN mediaTabs |-> k],
                                LAMBDA k : \A j \in 1..(k - 1) :
                                    Hostname(mediaTabs[j].tab) # Hostname(mediaTabs[k].tab))
         IN  [i \in DOMAIN first |-> Hostname(mediaTabs[first[i]].tab)]

\* createTabSection / updateTabSection (popup.js:269-317): the section of a
\* tab, its header made by createTabHeader from the tab object of this
\* refresh (popup.js:323-360).
TabSection(t, muted) == [tab |-> t, muted |-> muted[t]]

\* createSiteSection (popup.js:161-178)
CreateSiteSection(hostname, tabs, muted) ==
    [hostname |-> hostname,
     tabs |-> [k \in DOMAIN tabs |-> TabSection(tabs[k].tab, muted)]]

\* updateSiteSection (popup.js:237-260): tab sections of vanished tabs are
\* removed, those of the group's tabs updated in place, new ones appended.
UpdateSiteSection(section, tabs, muted) ==
    LET currentTabIds == {tabs[k].tab : k \in DOMAIN tabs}
        kept == SelectSeq(section.tabs, LAMBDA ts : ts.tab \in currentTabIds)
        added == SelectSeq(tabs, LAMBDA mt : \A k \in DOMAIN kept : kept[k].tab # mt.tab)
    IN  [section EXCEPT !.tabs =
            [k \in DOMAIN kept |-> TabSection(kept[k].tab, muted)]
               \o [k \in DOMAIN added |-> TabSection(added[k].tab, muted)]]

\* updateUI (popup.js:99-129): the loader goes; with no site group the
\* container is replaced by the empty-state panel; else sections of vanished
\* hostnames are removed, existing ones updated and new ones appended, the
\* container being emptied before the first new one only if it holds an
\* .empty-state node.
UpdateUI(container, sites, order, muted) ==
    IF DOMAIN sites = {}
    THEN Container("empty", <<>>)
    ELSE LET kept == SelectSeq(container.sections,
                               LAMBDA sec : sec.hostname \in DOMAIN sites)
             new == SelectSeq(order, LAMBDA h : \A k \in DOMAIN kept : kept[k].hostname # h)
             emptied == container.panel = "empty" /\ new # <<>>
         IN  Container(IF container.panel = "loader" \/ emptied
                       THEN "none" ELSE container.panel,
                       (IF emptied THEN <<>>
                        ELSE [k \in DOMAIN kept |->
                                 UpdateSiteSection(kept[k], sites[kept[k].hostname], muted)])
                          \o [k \in DOMAIN new |->
                                 CreateSiteSection(new[k], sites[new[k]], muted)])

\* renderErrorState (popup.js:145-153): the container is replaced by the
\* error panel.
RenderErrorState ==
    /\ appContainer' = Container("error", <<>>)
    /\ view' = EmptyMap

\* A popup whose continuations run in any order.
FirstAwaitingAny(c, t) == TRUE

\* The responses of one receiver reach the popup in the order of their
\* requests, and the continuation of an await runs when its response
\* arrives (popup.js:20, 43-44): no refresh started earlier is still at the
\* await of this stage.
FirstAwaiting(c, stage) == \A b \in 1..(c - 1) : cycles[b].pc # stage

\* The same for the queries sent to one tab (popup.js:50): no refresh started
\* earlier still awaits this tab.
FirstAwaitingTab(c, t) ==
    \A b \in 1..(c - 1) : ~(cycles[b].pc = "queries" /\ t \in cycles[b].pending)

\* A Promise.all that resolves with the first query settled.
AllSettledAtOnce(pending) == TRUE

\* Promise.all(promises) (popup.js:69) resolves when no query of the refresh
\* is outstanding.
AllSettled(pending) == pending = {}

\* A refreshMediaList without the guard of popup.js:35-37 and 18.
RefreshMediaListUnguarded(interacting) ==
    LET c == refreshCount + 1
    IN  /\ refreshCount < MaxRefreshes
        /\ refreshCount' = c
        /\ cycles' = [cycles EXCEPT ![c].pc = "sync"]
        /\ bgInbox' = Append(bgInbox, Envelope(BgMessage("getAllVolumes", "", 0), c))

\* refreshMediaList up to its first await (popup.js:34-41, 17-20): nothing
\* while the user is interacting, else getAllVolumes is sent.
RefreshMediaList(interacting) ==
    LET c == refreshCount + 1
    IN  /\ refreshCount < MaxRefreshes
        /\ refreshCount' = c
        /\ IF interacting
           THEN /\ cycles' = [cycles EXCEPT ![c].pc = "skipped"]
                /\ UNCHANGED bgInbox
           ELSE /\ cycles' = [cycles EXCEPT ![c].pc = "sync"]
                /\ bgInbox' = Append(bgInbox,
                                     Envelope(BgMessage("getAllVolumes", "", 0), c))

\* initialize, which arms the interval, and the setInterval tick
\* (popup.js:459-460).
Tick ==
    /\ refreshCount = 0 \/ refreshInterval
    /\ refreshInterval' = TRUE
    /\ RefreshMediaList(isUserInteracting)
    /\ UNCHANGED <<isUserInteracting, interactionTimeout, timers, releases,
                   popupSiteVolumes, view,
                   activeTab, inputCount, lastInput>>
    /\ UNCHANGED <<appContainer, tabMuted, clickCount>>
    /\ UNCHANGED <<siteVolumes, loadState, loadResult, storage, storageQueue, response,
                   lastSet, setThisLife, failedWrite, setCount, restarts, ioFailed,
                   startedEmpty>>
    /\ UNCHANGED agentVars
    /\ UNCHANGED enforceVars

\* The background listener handles the next runtime message of the popup; the
\* response to getAllVolumes travels back to the refresh that awaits it.
BgDeliver ==
    /\ bgInbox # <<>>
    /\ Head(bgInbox).m.cmd # "getVolume"
    /\ BgHandle(Head(bgInbox).m)
    /\ bgInbox' = Tail(bgInbox)
    /\ cycles' = IF Head(bgInbox).m.cmd = "getAllVolumes"
                 THEN [cycles EXCEPT ![Head(bgInbox).cycle].volumes = Data(response'.all)]
                 ELSE cycles
    /\ UNCHANGED <<loadState, loadResult, storage, restarts, ioFailed, startedEmpty>>
    /\ UNCHANGED <<isUserInteracting, interactionTimeout, timers, releases,
                   popupSiteVolumes, refreshCount,
                   view, activeTab, inputCount, lastInput>>
    /\ UNCHANGED agentVars
    /\ UNCHANGED enforceVars
    /\ UNCHANGED renderVars

\* syncVolumesFromBackground after its await (popup.js:21-23): the popup's
\* table is replaced by the response.
SyncResume ==
    /\ \E c \in DOMAIN cycles :
         /\ cycles[c].pc = "sync"
         /\ FirstAwaiting(c, "sync")
         /\ cycles[c].volumes.has
         /\ popupSiteVolumes' = MapFromObject(cycles[c].volumes.obj)
         /\ cycles' = [cycles EXCEPT ![c].pc = "tabs", ![c].volumes = NoData]
    /\ UNCHANGED <<isUserInteracting, interactionTimeout, timers, releases,
                   refreshCount, view, activeTab,
                   inputCount, lastInput>>
    /\ UNCHANGED <<storeVars, agentVars>>
    /\ UNCHANGED enforceVars
    /\ UNCHANGED renderVars

\* refreshMediaList after the two tabs.query awaits (popup.js:43-50): a query
\* is sent to every tab of the window; only those that run a tab agent
\* receive it. The tab objects, with their mutedInfo, are those of this
\* moment.
TabsResume ==
    /\ \E c \in DOMAIN cycles :
         /\ cycles[c].pc = "tabs"
         /\ FirstAwaiting(c, "tabs")
         /\ tabInbox' = [t \in Tabs |->
                            Append(tabInbox[t],
                                   Envelope(AgentMessage("query", {}, 0, 0, NaN, 0), c))]
         /\ cycles' = [cycles EXCEPT ![c].pc = "queries", ![c].pending = PanelActiveTabs,
                                     ![c].active = activeTab, ![c].muted = tabMuted]
    /\ UNCHANGED <<tabHost, doc, el, mediaElements, scanGen, agentRequest, agentReply,
                   clientView, commandCount, pageEvents>>
    /\ UNCHANGED <<isUserInteracting, interactionTimeout, timers, releases,
                   popupSiteVolumes, refreshCount,
                   view, activeTab, inputCount, lastInput>>
    /\ UNCHANGED storeVars
    /\ UNCHANGED enforceVars
    /\ UNCHANGED renderVars

\* A tab agent handles the next message sent to it; the reply to a query
\* travels back to the refresh that awaits it.
TabDeliver ==
    /\ \E t \in Tabs :
         /\ tabInbox[t] # <<>>
         /\ AgentHandle(t, Head(tabInbox[t]).m)
         /\ tabInbox' = [tabInbox EXCEPT ![t] = Tail(@)]
         /\ cycles' = IF Head(tabInbox[t]).m.cmd = "query"
                      THEN [cycles EXCEPT ![Head(tabInbox[t]).cycle].replies[t] =
                                              SomeList(agentReply'.list)]
                      ELSE cycles
    /\ UNCHANGED <<tabHost, doc, clientView, commandCount, pageEvents>>
    /\ UNCHANGED <<isUserInteracting, interactionTimeout, timers, releases,
                   popupSiteVolumes, refreshCount,
                   view, activeTab, inputCount, lastInput>>
    /\ UNCHANGED storeVars
    /\ UNCHANGED enforceVars
    /\ UNCHANGED renderVars

\* The per-tab continuation of refreshMediaList once the query of tab t has
\* settled with list (popup.js:51-63; empty when the catch of popup.js:64-66
\* swallowed a failure) and, when it is the last one of its refresh, the
\* continuation of Promise.all (popup.js:69-87): the site groups are rendered.
TabSettled(c, t, list) ==
    LET mediaTabs == IF list # <<>>
                     THEN Append(cycles[c].mediaTabs, [tab |-> t, mediaElements |-> list])
                     ELSE cycles[c].mediaTabs
        pending == cycles[c].pending \ {t}
    IN  /\ tabInbox' = IF t \in Tabs
                       THEN [tabInbox EXCEPT ![t] = @ \o CorrectiveCommands(t, list)]
                       ELSE tabInbox
        /\ cycles' = [cycles EXCEPT ![c].pending = pending,
                                    ![c].replies = [u \in Tabs |->
                                                       IF u = t THEN NoList ELSE @[u]],
                                    ![c].mediaTabs = mediaTabs,
                                    ![c].pc = IF AllSettled(pending) THEN "done" ELSE @]
        /\ view' = IF AllSettled(pending) THEN Sites(mediaTabs, cycles[c].active)
                   ELSE view
        /\ appContainer' =
              IF AllSettled(pending)
              THEN UpdateUI(appContainer, Sites(mediaTabs, cycles[c].active),
                            SiteOrder(mediaTabs, cycles[c].active), cycles[c].muted)
              ELSE appContainer

\* The reply of a tab's query reaches the refresh that awaits it.
QueryResume ==
    /\ \E c \in DOMAIN cycles : \E t \in cycles[c].pending \cap Tabs :
         /\ cycles[c].pc = "queries"
         /\ FirstAwaitingTab(c, t)
         /\ cycles[c].replies[t].has
         /\ TabSettled(c, t, cycles[c].replies[t].list)
    /\ UNCHANGED <<tabHost, doc, el, mediaElements, scanGen, agentRequest, agentReply,
                   clientView, commandCount, pageEvents>>
    /\ UNCHANGED <<isUserInteracting, interactionTimeout, timers, releases,
                   popupSiteVolumes, refreshCount,
                   activeTab, inputCount, lastInput>>
    /\ UNCHANGED storeVars
    /\ UNCHANGED enforceVars
    /\ UNCHANGED <<refreshInterval, tabMuted, clickCount>>

\* A rejected query that ends its refresh in the error panel
\* (renderErrorState, popup.js:145-153) instead of being swallowed.
QueryFailsAborts ==
    /\ \E c \in DOMAIN cycles : \E t \in cycles[c].pending \ Tabs :
         /\ cycles[c].pc = "queries"
         /\ cycles' = [cycles EXCEPT ![c].pc = "error", ![c].pending = {}]
         /\ RenderErrorState
    /\ UNCHANGED agentVars
    /\ UNCHANGED <<isUserInteracting, interactionTimeout, timers, releases,
                   popupSiteVolumes, refreshCount, activeTab, inputCount, lastInput>>
    /\ UNCHANGED storeVars
    /\ UNCHANGED enforceVars
    /\ UNCHANGED <<refreshInterval, tabMuted, clickCount>>

\* The query sent to a tab that runs no tab agent is rejected (no listener);
\* the catch of popup.js:64-66 swallows the rejection.
QueryFails ==
    /\ \E c \in DOMAIN cycles : \E t \in cycles[c].pending \ Tabs :
         /\ cycles[c].pc = "queries"
         /\ FirstAwaitingTab(c, t)
         /\ TabSettled(c, t, <<>>)
    /\ UNCHANGED <<tabHost, doc, el, mediaElements, scanGen, agentRequest, agentReply,
                   clientView, commandCount, pageEvents>>
    /\ UNCHANGED <<isUserInteracting, interactionTimeout, timers, releases,
                   popupSiteVolumes, refreshCount,
                   activeTab, inputCount, lastInput>>
    /\ UNCHANGED storeVars
    /\ UNCHANGED enforceVars
    /\ UNCHANGED <<refreshInterval, tabMuted, clickCount>>

\* clearTimeout(interactionTimeout) (popup.js:439, 443) without effect.
ClearTimeoutNoOp == timers

\* clearTimeout(interactionTimeout) (popup.js:439, 443): the timers left
\* pending; an id that names no pending timer clears nothing.
ClearTimeout == IF interactionTimeout THEN timers - 1 ELSE timers

\* mousedown / touchstart on a slider of the view (popup.js:437-440).
StartInteraction ==
    /\ DOMAIN view # {}
    /\ isUserInteracting' = TRUE
    /\ timers' = ClearTimeout
    /\ interactionTimeout' = FALSE
    /\ releases' = IF isUserInteracting THEN releases ELSE 0
    /\ <<isUserInteracting', interactionTimeout'>> # <<isUserInteracting, interactionTimeout>>
    /\ UNCHANGED <<popupSiteVolumes, cycles, refreshCount, view, activeTab, inputCount,
                   lastInput>>
    /\ UNCHANGED <<storeVars, agentVars>>
    /\ UNCHANGED enforceVars
    /\ UNCHANGED renderVars

\* mouseup / touchend anywhere in the popup while interacting
\* (popup.js:467-472, 442-448): the quiet-delay timer is cleared and armed
\* anew.
EndInteraction ==
    /\ isUserInteracting
    /\ timers' = ClearTimeout + 1
    /\ interactionTimeout' = TRUE
    /\ releases' = Min(releases + 1, MaxReleases)
    /\ UNCHANGED <<isUserInteracting, popupSiteVolumes, cycles, refreshCount, view,
                   activeTab, inputCount, lastInput>>
    /\ UNCHANGED <<storeVars, agentVars>>
    /\ UNCHANGED enforceVars
    /\ UNCHANGED renderVars

\* A pending quiet-delay timer fires (popup.js:444-447).
InteractionTimeout ==
    /\ timers > 0
    /\ timers' = timers - 1
    /\ interactionTimeout' = (interactionTimeout /\ timers > 1)
    /\ isUserInteracting' = FALSE
    /\ RefreshMediaList(FALSE)
    /\ UNCHANGED <<releases, popupSiteVolumes, view, activeTab, inputCount, lastInput>>
    /\ UNCHANGED <<siteVolumes, loadState, loadResult, storage, storageQueue, response,
                   lastSet, setThisLife, failedWrite, setCount, restarts, ioFailed,
                   startedEmpty>>
    /\ UNCHANGED agentVars
    /\ UNCHANGED enforceVars
    /\ UNCHANGED renderVars

\* The input event of a site volume slider (popup.js:208-223), by pointer or
\* by keyboard.
SliderInput ==
    /\ inputCount < MaxInputs
    /\ inputCount' = inputCount + 1
    /\ \E hostname \in DOMAIN view, newVolume \in SliderVolumes :
         /\ popupSiteVolumes' = MapSet(popupSiteVolumes, hostname, newVolume)
         /\ bgInbox' = Append(bgInbox,
                              Envelope(BgMessage("setVolume", hostname, newVolume), 0))
         /\ tabInbox' = [t \in Tabs |->
                            tabInbox[t] \o SliderCommands(view[hostname], t, newVolume)]
         /\ lastInput' =
              [hostname |-> hostname, volume |-> newVolume,
               targets |-> SectionTargets(view[hostname])]
    /\ UNCHANGED <<tabHost, doc, el, mediaElements, scanGen, agentRequest, agentReply,
                   clientView, commandCount, pageEvents>>
    /\ UNCHANGED <<isUserInteracting, interactionTimeout, timers, releases,
                   cycles, refreshCount, view,
                   activeTab>>
    /\ UNCHANGED <<siteVolumes, loadState, loadResult, storage, storageQueue, response,
                   lastSet, setThisLife, failedWrite, setCount, restarts, ioFailed,
                   startedEmpty>>
    /\ UNCHANGED enforceVars
    /\ UNCHANGED renderVars

\* The documents of the second tab: a playing video at volume 0.8 with its
\* metadata ("one"), without it ("none"), or with it and followed by a second
\* video that the page has set to 0.3 ("two": taken up on a shared site with
\* a locked volume and the third tab in the foreground, where the two videos
\* call for different corrections and one section shows them all).
PanelSecondTabs == {"one", "none", "two"}

\* The popup opens on a window with two tabs that hold playing videos at
\* volume 0.8, one in the first tab and any of PanelSecondTabs in the second,
\* on one site or on two, and a third tab that runs no tab agent, with any of
\* them in the foreground; the store is loaded and holds no volume or 0.8 for
\* the first site, and the content scripts have finished applying it.
PanelInit ==
    /\ tabHost \in {[t \in Tabs |-> "a.example"],
                    [t \in Tabs |-> IF t = 1 THEN "a.example" ELSE "b.example"]}
    /\ siteVolumes \in {EmptyMap, [h \in {"a.example"} |-> 800]}
    /\ \E second \in PanelSecondTabs :
         /\ second = "two" => (tabHost[2] = tabHost[1] /\ siteVolumes # EmptyMap)
         /\ doc = [t \in Tabs |-> IF t = 2 /\ second = "two" THEN <<2, 3>> ELSE <<t>>]
         /\ el = [e \in Range(doc[1]) \cup Range(doc[2]) |->
                     [Element("video", FALSE, e # 2 \/ second # "none", TRUE, TRUE)
                         EXCEPT !.volume = IF e = 3 THEN 300 ELSE 800]]
    /\ mediaElements = [t \in Tabs |-> <<>>]
    /\ scanGen = [t \in Tabs |-> 0]
    /\ agentRequest = NoRequest
    /\ agentReply = NoReply
    /\ clientView = NoView
    /\ commandCount = 0
    /\ pageEvents = 0
    /\ tabInbox = [t \in Tabs |-> <<>>]
    /\ loadState = "done"
    /\ loadResult = NoResult
    /\ bgInbox = <<>>
    /\ storage = IF siteVolumes = EmptyMap THEN NoData
                 ELSE Data(ObjectFromEntries(siteVolumes))
    /\ storageQueue = <<>>
    /\ response = NoResponse
    /\ lastSet = [h \in Hosts |-> None]
    /\ setThisLife = [h \in Hosts |-> FALSE]
    /\ failedWrite = [h \in Hosts |-> FALSE]
    /\ setCount = 0
    /\ restarts = 0
    /\ ioFailed = FALSE
    /\ startedEmpty = ~storage.has
    /\ isUserInteracting = FALSE
    /\ interactionTimeout = FALSE
    /\ timers = 0
    /\ releases = 0
    /\ popupSiteVolumes = EmptyMap
    /\ cycles = [c \in 1..MaxRefreshes |-> IdleCycle]
    /\ refreshCount = 0
    /\ view = EmptyMap
    /\ activeTab \in PanelActiveTabs
    /\ inputCount = 0
    /\ lastInput = NoInput
    /\ appContainer = InitialLoader
    /\ refreshInterval = FALSE
    /\ tabMuted = [t \in Tabs |-> FALSE]
    /\ clickCount = 0
    /\ Len(doc[2]) = 2 => activeTab = OtherTab
    /\ EnforceIdle

PanelNext ==
    \/ Tick
    \/ BgDeliver
    \/ StorageSet
    \/ SyncResume
    \/ TabsResume
    \/ TabDeliver
    \/ QueryResume
    \/ QueryFails
    \/ StartInteraction
    \/ EndInteraction
    \/ InteractionTimeout
    \/ SliderInput

SpecPanel == PanelInit /\ [][PanelNext]_vars

\* The panel under the scheduling the browser gives it: a pointer that went
\* down on a slider is released and the document hears it (popup.js:467-472),
\* and a quiet-delay timer that is armed again and again eventually runs,
\* because the user does not press anew within every delay for ever.
SpecPanelFair ==
    SpecPanel /\ WF_vars(EndInteraction) /\ SF_vars(InteractionTimeout)

\* ------------------------------------------- refreshes that fail, and mute
\* A failing refresh that also stops the polling (clearInterval).
TabsFailsHalts ==
    /\ \E c \in DOMAIN cycles :
         /\ cycles[c].pc = "tabs"
         /\ FirstAwaiting(c, "tabs")
         /\ cycles' = [cycles EXCEPT ![c].pc = "error"]
         /\ RenderErrorState
    /\ refreshInterval' = FALSE
    /\ UNCHANGED <<isUserInteracting, interactionTimeout, timers, releases,
                   popupSiteVolumes, refreshCount, activeTab, inputCount, lastInput>>
    /\ UNCHANGED <<tabMuted, clickCount>>
    /\ UNCHANGED <<storeVars, agentVars, enforceVars>>

\* browser.tabs.query rejects (popup.js:43-44): the catch of popup.js:89-92
\* logs the error and shows the error panel; the refresh is over.
TabsFails ==
    /\ \E c \in DOMAIN cycles :
         /\ cycles[c].pc = "tabs"
         /\ FirstAwaiting(c, "tabs")
         /\ cycles' = [cycles EXCEPT ![c].pc = "error"]
         /\ RenderErrorState
    /\ UNCHANGED <<isUserInteracting, interactionTimeout, timers, releases,
                   popupSiteVolumes, refreshCount, activeTab, inputCount, lastInput>>
    /\ UNCHANGED <<refreshInterval, tabMuted, clickCount>>
    /\ UNCHANGED <<storeVars, agentVars, enforceVars>>

\* A click on the mute-tab button of a tab section (popup.js:354-357):
\* tabs.update with the negation of the mutedInfo.muted of the tab object the
\* header was created with.
MuteTabClick ==
    /\ clickCount < MaxClicks
    /\ clickCount' = clickCount + 1
    /\ \E i \in DOMAIN appContainer.sections :
         \E j \in DOMAIN appContainer.sections[i].tabs :
            LET section == appContainer.sections[i].tabs[j]
            IN  tabMuted' = [tabMuted EXCEPT ![section.tab] = ~section.muted]
    /\ UNCHANGED <<isUserInteracting, interactionTimeout, timers, releases,
                   popupSiteVolumes, cycles, refreshCount, view, activeTab, inputCount,
                   lastInput>>
    /\ UNCHANGED <<appContainer, refreshInterval>>
    /\ UNCHANGED <<storeVars, agentVars, enforceVars>>

\* The popup opens on a window with a playing video in each of two tabs, on
\* one site or on two, and a third tab that runs no tab agent, with any of
\* them in the foreground; no volume is locked and no tab is muted.
RefreshInit ==
    /\ PanelInit
    /\ siteVolumes = EmptyMap
    /\ \A t \in Tabs : Len(doc[t]) = 1 /\ el[doc[t][1]].ready

\* The refreshes of the open popup, any of which may fail at the tab
\* enumeration, while the first page may remove its video and the user clicks
\* mute-tab buttons.
RefreshNext ==
    \/ Tick
    \/ BgDeliver
    \/ SyncResume
    \/ TabsResume
    \/ TabsFails
    \/ TabDeliver
    \/ QueryResume
    \/ QueryFails
    \/ RemoveElement
    \/ MuteTabClick

SpecRefresh == RefreshInit /\ [][RefreshNext]_vars

\* The interval of popup.js:460 fires again and again while it is armed.
SpecRefreshFair == SpecRefresh /\ WF_vars(Tick)

\* ------------------------------- volume enforcement (content.js:11-35, 285-305)
EnforceElems == {1, 2, 3}

\* Element volumes: 0.8, and two that agree (0.804) and disagree (0.806) with
\* it at two decimals.
EnforceVolumes == {800, 804, 806}

\* An exact comparison in place of Number.prototype.toFixed(2).
ToFixedExact(v) == v

\* Number.prototype.toFixed(2) of a volume, in hundredths: the nearest one.
\* (No volume of the model lies half way between two hundredths.)
ToFixed2(v) == (v + 5) \div 10

\* applyStoredVolume(element) up to its return or its await (content.js:11-21):
\* with readyState 0 a one-shot loadedmetadata listener is left and nothing is
\* sent, else getVolume is sent. ready stands for readyState > 0.
Call(t, e) ==
    [tab |-> t, element |-> e, pc |-> IF el[e].ready THEN "asked" ELSE "deferred",
     reply |-> None, deferred |-> ~el[e].ready]

\* The getVolume messages of the calls that have come to their await in a
\* step from the calls old to the calls new, in call order (content.js:21).
Asks(old, new) ==
    LET ks == SelectSeq([k \in 1..Len(new) |-> k],
                        LAMBDA k : /\ new[k].pc = "asked"
                                   /\ (k > Len(old) \/ old[k].pc # "asked"))
    IN  [j \in DOMAIN ks |->
            Envelope(BgMessage("getVolume", tabHost[new[ks[j]].tab], 0), ks[j])]

\* applyStoredVolume after its await (content.js:24-30): the element's volume
\* once the response storedVolume has been looked at. An assignment outside
\* 0..1 throws and the catch of content.js:32-34 leaves the volume.
AppliedVolume(volume, storedVolume) ==
    IF /\ storedVolume.some
       /\ ToFixed2(volume) # ToFixed2(storedVolume.v)
       /\ VolumeAssignable(storedVolume.v)
    THEN storedVolume.v
    ELSE volume

\* content.js runs in the page of a tab (content.js:285-305): the observer is
\* set up and applyStoredVolume is called for every media element of the
\* document, in document order.
ContentLoad ==
    /\ \E t \in AgentTabs :
         /\ ~contentLoaded[t]
         /\ contentLoaded' = [contentLoaded EXCEPT ![t] = TRUE]
         /\ applyCalls' = applyCalls \o [k \in DOMAIN doc[t] |-> Call(t, doc[t][k])]
    /\ bgInbox' = bgInbox \o Asks(applyCalls, applyCalls')
    /\ UNCHANGED <<siteVolumes, loadState, loadResult, storage, storageQueue, response,
                   lastSet, setThisLife, failedWrite, setCount, restarts, ioFailed,
                   startedEmpty>>
    /\ UNCHANGED <<agentVars, popupVars>>

\* The page inserts a media element into the document; if content.js has run
\* its MutationObserver callback calls applyStoredVolume for the node
\* (content.js:285-298).
PageInsert ==
    /\ pageEvents < MaxPageEvents
    /\ pageEvents' = pageEvents + 1
    /\ \E t \in AgentTabs : \E e \in EnforceElems \ Range(doc[t]), k \in 0..Len(doc[t]) :
         /\ doc' = [doc EXCEPT ![t] = InsertAt(doc[t], k, e)]
         /\ applyCalls' = IF contentLoaded[t] THEN Append(applyCalls, Call(t, e))
                          ELSE applyCalls
    /\ bgInbox' = bgInbox \o Asks(applyCalls, applyCalls')
    /\ UNCHANGED <<siteVolumes, loadState, loadResult, storage, storageQueue, response,
                   lastSet, setThisLife, failedWrite, setCount, restarts, ioFailed,
                   startedEmpty>>
    /\ UNCHANGED <<tabHost, el, mediaElements, scanGen, agentRequest, agentReply,
                   clientView, commandCount, tabInbox>>
    /\ UNCHANGED <<popupVars, contentLoaded>>

\* The page sets the volume of a media element.
PageVolume ==
    /\ pageEvents < MaxPageEvents
    /\ pageEvents' = pageEvents + 1
    /\ \E e \in EnforceElems, v \in EnforceVolumes :
         /\ el[e].volume # v
         /\ el' = [el EXCEPT ![e].volume = v]
    /\ UNCHANGED <<tabHost, doc, mediaElements, scanGen, agentRequest, agentReply,
                   clientView, commandCount, tabInbox>>
    /\ UNCHANGED <<storeVars, popupVars, enforceVars>>

\* loadedmetadata is dispatched on an element: readyState is above 0 and every
\* one-shot listener left on it runs applyStoredVolume again
\* (content.js:14-16), which now sends getVolume.
LoadedMetadata ==
    /\ \E e \in EnforceElems :
         /\ ~el[e].ready
         /\ el' = [el EXCEPT ![e].ready = TRUE]
         /\ applyCalls' = [k \in DOMAIN applyCalls |->
                              IF applyCalls[k].pc = "deferred" /\ applyCalls[k].element = e
                              THEN [applyCalls[k] EXCEPT !.pc = "asked"]
                              ELSE applyCalls[k]]
    /\ bgInbox' = bgInbox \o Asks(applyCalls, applyCalls')
    /\ UNCHANGED <<siteVolumes, loadState, loadResult, storage, storageQueue, response,
                   lastSet, setThisLife, failedWrite, setCount, restarts, ioFailed,
                   startedEmpty>>
    /\ UNCHANGED <<tabHost, doc, mediaElements, scanGen, agentRequest, agentReply,
                   clientView, commandCount, pageEvents, tabInbox>>
    /\ UNCHANGED <<popupVars, contentLoaded>>

\* The background listener handles the next getVolume (part_000:44-46) and its
\* response reaches the call that awaits it.
VolumeDeliver ==
    /\ bgInbox # <<>>
    /\ Head(bgInbox).m.cmd = "getVolume"
    /\ BgHandle(Head(bgInbox).m)
    /\ bgInbox' = Tail(bgInbox)
    /\ applyCalls' = [applyCalls EXCEPT ![Head(bgInbox).cycle] =
                         [@ EXCEPT !.pc = "answered", !.reply = response'.one]]
    /\ UNCHANGED <<loadState, loadResult, storage, restarts, ioFailed, startedEmpty>>
    /\ UNCHANGED <<agentVars, popupVars, contentLoaded>>

\* runtime.sendMessage rejects (no receiving end): the catch of
\* content.js:32-34 logs it.
SendFails ==
    /\ bgInbox # <<>>
    /\ bgInbox' = Tail(bgInbox)
    /\ applyCalls' = [applyCalls EXCEPT ![Head(bgInbox).cycle].pc = "failed"]
    /\ UNCHANGED <<siteVolumes, loadState, loadResult, storage, storageQueue, response,
                   lastSet, setThisLife, failedWrite, setCount, restarts, ioFailed,
                   startedEmpty>>
    /\ UNCHANGED <<agentVars, popupVars, contentLoaded>>

\* applyStoredVolume after its await (content.js:24-30).
ApplyResume ==
    /\ \E k \in DOMAIN applyCalls :
         /\ applyCalls[k].pc = "answered"
         /\ applyCalls' = [applyCalls EXCEPT ![k].pc = "done"]
         /\ el' = [el EXCEPT ![applyCalls[k].element].volume =
                                 AppliedVolume(@, applyCalls[k].reply)]
    /\ UNCHANGED <<tabHost, doc, mediaElements, scanGen, agentRequest, agentReply,
                   clientView, commandCount, pageEvents, tabInbox>>
    /\ UNCHANGED <<storeVars, popupVars, contentLoaded>>

\* A page on a.example with two video elements, the second without metadata,
\* and a third not yet in the document, each at one of the volumes; content.js
\* has not run yet; the store is loaded and holds nothing, 0.3 or 0.8 for the
\* site.
EnforceInit ==
    /\ tabHost = [t \in Tabs |-> "a.example"]
    /\ doc = [t \in Tabs |-> IF t \in AgentTabs THEN <<1, 2>> ELSE <<>>]
    /\ \E vol \in [EnforceElems -> EnforceVolumes], late \in BOOLEAN :
         el = [e \in EnforceElems |->
                  [Element("video", TRUE, IF e = 3 THEN ~late ELSE e = 1, TRUE, TRUE)
                      EXCEPT !.volume = vol[e]]]
    /\ mediaElements = [t \in Tabs |-> <<>>]
    /\ scanGen = [t \in Tabs |-> 0]
    /\ agentRequest = NoRequest
    /\ agentReply = NoReply
    /\ clientView = NoView
    /\ commandCount = 0
    /\ pageEvents = 0
    /\ tabInbox = [t \in Tabs |-> <<>>]
    /\ siteVolumes \in {EmptyMap} \cup {[h \in {"a.example"} |-> v] : v \in Volumes}
    /\ loadState = "done"
    /\ storage = IF siteVolumes = EmptyMap THEN NoData
                 ELSE Data(ObjectFromEntries(siteVolumes))
    /\ loadResult = Settled([ok |-> TRUE, data |-> storage])
    /\ bgInbox = <<>>
    /\ storageQueue = <<>>
    /\ response = NoResponse
    /\ lastSet = [h \in Hosts |-> None]
    /\ setThisLife = [h \in Hosts |-> FALSE]
    /\ failedWrite = [h \in Hosts |-> FALSE]
    /\ setCount = 0
    /\ restarts = 0
    /\ ioFailed = FALSE
    /\ startedEmpty = ~storage.has
    /\ PopupIdle
    /\ contentLoaded = [t \in Tabs |-> FALSE]
    /\ applyCalls = <<>>

EnforceNext ==
    \/ ContentLoad
    \/ PageInsert
    \/ PageVolume
    \/ LoadedMetadata
    \/ VolumeDeliver
    \/ SendFails
    \/ ApplyResume

SpecEnforce == EnforceInit /\ [][EnforceNext]_vars

\* ------------------------------------ enforcement while the popup is in use
\* The page moves a media element of its document to another parent and back
\* (a player that re-parents its video): the element is among the added
\* nodes of a mutation, and the MutationObserver callback calls
\* applyStoredVolume for it (content.js:285-298).
PageMoves ==
    /\ pageEvents < MaxPageEvents
    /\ pageEvents' = pageEvents + 1
    /\ \E t \in AgentTabs : \E e \in Range(doc[t]) :
         /\ contentLoaded[t]
         /\ applyCalls' = Append(applyCalls, Call(t, e))
    /\ bgInbox' = bgInbox \o Asks(applyCalls, applyCalls')
    /\ UNCHANGED <<siteVolumes, loadState, loadResult, storage, storageQueue, response,
                   lastSet, setThisLife, failedWrite, setCount, restarts, ioFailed,
                   startedEmpty>>
    /\ UNCHANGED <<tabHost, doc, el, mediaElements, scanGen, agentRequest, agentReply,
                   clientView, commandCount, tabInbox>>
    /\ UNCHANGED <<popupVars, contentLoaded>>

\* The popup opens on a window whose first tab plays a video at 0.8 on a site
\* locked at 0.8; the video of the second tab has not loaded its metadata.
RaceInit ==
    /\ PanelInit
    /\ tabHost = [t \in Tabs |-> "a.example"]
    /\ siteVolumes # EmptyMap
    /\ Len(doc[2]) = 1
    /\ ~el[doc[2][1]].ready
    /\ activeTab = OtherTab

\* The refreshes and the site slider of the popup, and the page of the first
\* tab re-parenting its video, with the enforcement this triggers.
RaceNext ==
    \/ Tick
    \/ BgDeliver
    \/ VolumeDeliver
    \/ StorageSet
    \/ SyncResume
    \/ TabsResume
    \/ TabDeliver
    \/ QueryResume
    \/ QueryFails
    \/ SliderInput
    \/ PageMoves
    \/ ApplyResume

SpecRace == RaceInit /\ [][RaceNext]_vars

\* ---------------------------------------------------------- agent claims
\* A step in which a tab agent handled a message.
HandledStep == agentReply'.seq # agentReply.seq

IdsCommands == {"play", "pause", "mute", "unmute"}
IdCommands == {"volume", "currentTime", "focus"}

\* What an ids command does to one element.
Acted(cmd, r) ==
    CASE cmd = "play" -> [r EXCEPT !.paused = FALSE]
      [] cmd = "pause" -> [r EXCEPT !.paused = TRUE]
      [] cmd = "mute" -> [r EXCEPT !.muted = TRUE]
      [] cmd = "unmute" -> [r EXCEPT !.muted = FALSE]

InverseLabel(cmd) ==
    CASE cmd = "play" -> "pause"
      [] cmd = "pause" -> "play"
      [] cmd = "mute" -> "unmute"
      [] cmd = "unmute" -> "mute"

\* C4 (as claimed): a control command whose ids come from a query reply, handled
\* after a later query rebuilt the mapping, changes the state of no media
\* element.
C4_StaleCommandNoOp ==
    [][(/\ HandledStep
        /\ agentRequest'.cmd \in IdsCommands \cup IdCommands
        /\ agentRequest'.gen > 0
        /\ agentRequest'.gen < scanGen[agentReply'.tab])
            => el' = el]_vars

\* C6: play, pause, mute and unmute act on exactly the elements whose id is in
\* ids and in the current mapping, leave every other element as it was, reply
\* (so an absent id is skipped without throwing) and return the inverse label.
C6_IdsCommandFrame ==
    [][(HandledStep /\ agentRequest'.cmd \in IdsCommands) =>
          LET t == agentReply'.tab
              m == agentRequest'
              denoted == {mediaElements[t][i] : i \in m.ids \cap DOMAIN mediaElements[t]}
          IN  /\ \A e \in DOMAIN el :
                    el'[e] = IF e \in denoted THEN Acted(m.cmd, el[e]) ELSE el[e]
              /\ agentReply'.cmd = m.cmd
              /\ agentReply'.value = InverseLabel(m.cmd)
              /\ mediaElements' = mediaElements]_vars

\* C6 witness: pause was handled with an id of the mapping and an id absent from
\* it; the element of the first is paused and the other element of the mapping
\* still plays.
C6_Witness ==
    /\ agentRequest.cmd = "pause"
    /\ agentReply.value = "play"
    /\ Len(mediaElements[1]) = 2
    /\ agentRequest.ids = {2, 3}
    /\ el[mediaElements[1][2]].paused
    /\ ~el[mediaElements[1][1]].paused

\* C7: volume and currentTime always reply with a boolean; the reply is false
\* with every element unchanged when the id is absent from the mapping or the
\* assignment throws, and true exactly when the mapped element took the value.
C7_SettersReturnBooleans ==
    [][(HandledStep /\ agentRequest'.cmd \in {"volume", "currentTime"}) =>
          LET t == agentReply'.tab
              m == agentRequest'
              present == m.id \in DOMAIN mediaElements[t]
              assignable == IF m.cmd = "volume" THEN VolumeAssignable(m.volume)
                            ELSE TimeAssignable(m.currentTime)
              assigned == IF m.cmd = "volume"
                          THEN [el EXCEPT ![mediaElements[t][m.id]].volume = m.volume]
                          ELSE [el EXCEPT ![mediaElements[t][m.id]].currentTime =
                                              m.currentTime.s]
          IN  /\ agentReply'.cmd = m.cmd
              /\ agentReply'.value \in {"true", "false"}
              /\ (agentReply'.value = "true") <=> (present /\ assignable)
              /\ el' = IF present /\ assignable THEN assigned ELSE el]_vars

\* C7 witness: a volume command with a level the element rejects was answered
\* false for an id of the mapping, the element keeping its volume.
C7_Witness ==
    /\ agentRequest.cmd = "volume"
    /\ agentRequest.id \in DOMAIN mediaElements[1]
    /\ ~VolumeAssignable(agentRequest.volume)
    /\ agentReply.value = "false"
    /\ el[mediaElements[1][agentRequest.id]].volume = 800

\* C8: after pauseAll every element of the mapping is paused, reported by the
\* last query or not, the elements that were paused are as they were, and the
\* acknowledgement is returned.
C8_PauseAll ==
    [][(HandledStep /\ agentRequest'.cmd = "pauseAll") =>
          LET t == agentReply'.tab
          IN  /\ \A e \in Range(mediaElements'[t]) : el'[e].paused
              /\ \A e \in DOMAIN el : el[e].paused => el'[e] = el[e]
              /\ \A e \in DOMAIN el : e \notin Range(mediaElements[t]) => el'[e] = el[e]
              /\ agentReply'.value = "ok"]_vars

\* C8 witness: pauseAll, the only command and with no page event before it, was
\* handled while the mapping held an element that no query reports (its
\* metadata has not arrived) and that was playing; it is paused.
C8_Witness ==
    /\ agentRequest.cmd = "pauseAll"
    /\ agentReply.value = "ok"
    /\ commandCount = 1
    /\ pageEvents = 0
    /\ 2 \in Range(mediaElements[1])
    /\ ~el[2].ready
    /\ el[2].paused

\* The ids of the document of tab t whose element passes the metadata test and
\* the site filter, by what the element is.
PassingIds(t) ==
    {i \in DOMAIN doc[t] :
        LET r == el[doc[t][i]]
        IN  r.ready /\ (tabHost[t] \notin InstagramHosts \/ ~r.paused
                        \/ r.tag = "audio" \/ r.rect = MainRect)}
PlayingIds(t) == {i \in PassingIds(t) : ~el[doc[t][i]].paused}
PausedShownIds(t) ==
    {i \in PassingIds(t) : LET r == el[doc[t][i]]
                           IN  r.paused /\ (r.visible \/ r.tag = "audio")}
PausedOffscreenIds(t) ==
    {i \in PassingIds(t) : LET r == el[doc[t][i]]
                           IN  r.paused /\ ~r.visible /\ r.tag # "audio"}

\* The class of a result entry: 1 playing, 2 paused and visible or audio,
\* 3 paused and off screen.
EntryClass(d) == IF d.playing THEN 1 ELSE IF d.visible THEN 2 ELSE 3
EntriesOfClass(list, c) == {k \in DOMAIN list : EntryClass(list[k]) = c}

\* C5: a query result lists every playing element that passes the filters
\* first, then at most 3 paused elements that are visible or audio, then at
\* most 1 paused off-screen element; with K playing elements it has at most
\* K+4 entries and no paused entry precedes a playing one.
C5_QueryOrderAndLimits ==
    agentReply.cmd = "query" =>
        LET t == agentReply.tab
            list == agentReply.list
        IN  /\ \A k \in DOMAIN list :
                  /\ list[k].id \in PassingIds(t)
                  /\ list[k].playing = ~el[doc[t][list[k].id]].paused
                  /\ list[k].volume = el[doc[t][list[k].id]].volume
                  /\ list[k].muted = el[doc[t][list[k].id]].muted
            /\ \A j, k \in DOMAIN list : j < k =>
                  /\ list[j].id # list[k].id
                  /\ EntryClass(list[j]) <= EntryClass(list[k])
            /\ {list[k].id : k \in EntriesOfClass(list, 1)} = PlayingIds(t)
            /\ {list[k].id : k \in EntriesOfClass(list, 2)} \subseteq PausedShownIds(t)
            /\ {list[k].id : k \in EntriesOfClass(list, 3)} \subseteq PausedOffscreenIds(t)
            /\ Cardinality(EntriesOfClass(list, 2)) =
                  Min(Cardinality(PausedShownIds(t)), 3)
            /\ Cardinality(EntriesOfClass(list, 3)) =
                  Min(Cardinality(PausedOffscreenIds(t)), 1)
            /\ Len(list) <= Cardinality(PlayingIds(t)) + 4

\* C5 witness: a query answered on a document with a playing element, more
\* than 3 paused visible-or-audio elements and a paused off-screen one; the
\* result has exactly K+4 entries.
C5_Witness ==
    /\ agentReply.cmd = "query"
    /\ Cardinality(PlayingIds(1)) >= 1
    /\ Cardinality(PausedShownIds(1)) > 3
    /\ Cardinality(PausedOffscreenIds(1)) >= 1
    /\ Len(agentReply.list) = Cardinality(PlayingIds(1)) + 4

\* The tab agent handled a query in this step.
QueryStep == HandledStep /\ agentRequest'.cmd = "query"

\* C24: each query replaces the id mapping by one that gives the ids 1..N to
\* all N video/audio elements of the document in document order, filtered
\* out or not; every descriptor of the response carries the id under which
\* the new mapping holds the element it describes, and the ids of a response
\* are pairwise distinct.
C24_QueryRebuildsIds ==
    [][QueryStep =>
         LET t == agentReply'.tab
             list == agentReply'.list
         IN  /\ DOMAIN mediaElements'[t] = 1..Len(doc[t])
             /\ \A i \in 1..Len(doc[t]) : mediaElements'[t][i] = doc[t][i]
             /\ \A k \in DOMAIN list :
                   /\ list[k].id \in DOMAIN mediaElements'[t]
                   /\ el[mediaElements'[t][list[k].id]].ready
                   /\ list[k] = MediaInfo(mediaElements'[t][list[k].id], list[k].id)
             /\ \A j, k \in DOMAIN list : j # k => list[j].id # list[k].id]_vars

\* C24 witness: the second query of a page finds the document reordered: the
\* element without metadata now comes first and is given id 1, though it is
\* not reported, and the element the first query held under id 1 is reported
\* under id 2.
C24_Witness ==
    /\ agentRequest.cmd = "query"
    /\ scanGen[1] = 2
    /\ doc[1] = <<2, 1>>
    /\ mediaElements[1] = <<2, 1>>
    /\ ~el[2].ready
    /\ Len(agentReply.list) = 1
    /\ agentReply.list[1].id = 2

\* ---------------------------------------------------------- filter claims
\* The ids a query reply lists.
ListedIds(list) == {list[k].id : k \in DOMAIN list}

\* The rectangle is larger than 200x200 and lies within the viewport extended
\* by 50px above and below.
LargeAndWithin(rect) ==
    /\ rect.width > 200
    /\ rect.height > 200
    /\ rect.top > -50
    /\ rect.top + rect.height < ViewportHeight + 50

\* The site filter drops the element: a paused video on Instagram that is not
\* large and within.
Dropped(t, r) ==
    /\ tabHost[t] \in InstagramHosts
    /\ r.paused
    /\ r.tag = "video"
    /\ ~LargeAndWithin(r.rect)

\* The paused elements of the document of tab t that are not dropped, precede
\* position i and fall in the same part of the result as the element at i.
PausedBefore(t, i) ==
    {j \in 1..(i - 1) :
        LET r == el[doc[t][i]]
            q == el[doc[t][j]]
        IN  /\ q.ready /\ q.paused /\ ~Dropped(t, q)
            /\ (q.visible \/ q.tag = "audio") = (r.visible \/ r.tag = "audio")}

\* The limits of the result cut the paused element at position i.
CutByLimit(t, i) ==
    LET r == el[doc[t][i]]
    IN  Cardinality(PausedBefore(t, i)) >=
            (IF r.visible \/ r.tag = "audio" THEN VisibleLimit ELSE OtherLimit)

\* C14: in a query reply on a hostname containing instagram.com no paused
\* video is listed unless it is larger than 200x200 and within the viewport
\* extended by 50px vertically; every other element with metadata is listed
\* on every hostname: always when it plays, and when paused unless the limits
\* on paused entries cut it.
C14_InstagramFilter ==
    agentReply.cmd = "query" =>
        LET t == agentReply.tab
        IN  \A i \in DOMAIN doc[t] :
               LET r == el[doc[t][i]]
               IN  /\ Dropped(t, r) => i \notin ListedIds(agentReply.list)
                   /\ (r.ready /\ ~Dropped(t, r)) =>
                         (i \in ListedIds(agentReply.list)
                             <=> (~r.paused \/ ~CutByLimit(t, i)))

\* C14 witness: a query answered on Instagram for a paused video of exactly
\* 200px height, which is left out, and a paused video one pixel taller,
\* which is listed.
C14_Witness ==
    /\ agentReply.cmd = "query"
    /\ tabHost[1] \in InstagramHosts
    /\ Len(doc[1]) = 2
    /\ el[doc[1][1]] = ElementAt("video", TRUE, TRUE, TRUE, Rect(100, 300, 200))
    /\ el[doc[1][2]] = ElementAt("video", TRUE, TRUE, TRUE, Rect(100, 300, 201))
    /\ ListedIds(agentReply.list) = {2}

\* ------------------------------------------------------ enforcement claims
\* The calls of applyStoredVolume made in this step.
NewCalls == SubSeq(applyCalls', Len(applyCalls) + 1, Len(applyCalls'))

\* The elements a sequence of calls was made for, in call order.
CallElements(calls) == [k \in DOMAIN calls |-> calls[k].element]

\* The getVolume messages on their way for the call k.
RequestsOf(inbox, k) == {i \in DOMAIN inbox : inbox[i].cycle = k}

\* Two volumes (in thousandths) are the same number at two decimals.
AgreeAtTwoDecimals(a, b) ==
    \E h \in 0..100 : /\ 10 * h - 5 <= a /\ a < 10 * h + 5
                      /\ 10 * h - 5 <= b /\ b < 10 * h + 5

\* The call k takes up its response in this step.
ResponseStep(k) ==
    /\ k \in DOMAIN applyCalls
    /\ applyCalls[k].pc = "answered"
    /\ applyCalls'[k].pc = "done"

\* C18, requests: a call of applyStoredVolume for an element without metadata
\* has sent nothing, and a call that awaits its response has exactly one
\* getVolume with the page's hostname on its way.
RequestWhenReady ==
    \A k \in DOMAIN applyCalls :
        /\ applyCalls[k].pc = "deferred" =>
              /\ ~el[applyCalls[k].element].ready
              /\ RequestsOf(bgInbox, k) = {}
        /\ applyCalls[k].pc = "asked" =>
              /\ el[applyCalls[k].element].ready
              /\ Cardinality(RequestsOf(bgInbox, k)) = 1
              /\ \A i \in RequestsOf(bgInbox, k) :
                    bgInbox[i].m = BgMessage("getVolume", tabHost[applyCalls[k].tab], 0)
        /\ applyCalls[k].pc \in {"answered", "failed", "done"} =>
              RequestsOf(bgInbox, k) = {}

\* C18: when content.js runs it calls applyStoredVolume for every media
\* element of the document, and once it has run, for every element inserted;
\* the call asks the store for the hostname's volume at once when the element
\* has metadata and else when loadedmetadata arrives, sending nothing before;
\* on the response the element's volume becomes the stored value exactly when
\* one exists and differs from it at two decimals, and is left as it is
\* otherwise and when the request fails; nothing else in the agent changes an
\* element's volume.
C18_StoredVolumeEnforced ==
    /\ []RequestWhenReady
    /\ [][/\ \A t \in AgentTabs :
                /\ (~contentLoaded[t] /\ contentLoaded'[t])
                      => CallElements(NewCalls) = doc[t]
                /\ (contentLoaded[t] /\ Len(doc'[t]) > Len(doc[t]))
                      => /\ Len(NewCalls) = 1
                         /\ NewCalls[1].element \in Range(doc'[t]) \ Range(doc[t])
          /\ \A k \in DOMAIN NewCalls :
                NewCalls[k].pc = IF el[NewCalls[k].element].ready THEN "asked"
                                 ELSE "deferred"
          /\ \A e \in EnforceElems :
                (~el[e].ready /\ el'[e].ready) =>
                    \A k \in DOMAIN applyCalls :
                        (applyCalls[k].element = e /\ applyCalls[k].pc = "deferred")
                            => applyCalls'[k].pc = "asked"
          /\ \A k \in DOMAIN applyCalls :
                ResponseStep(k) =>
                    LET e == applyCalls[k].element
                        storedVolume == applyCalls[k].reply
                    IN  /\ el'[e].volume =
                              IF /\ storedVolume.some
                                 /\ ~AgreeAtTwoDecimals(el[e].volume, storedVolume.v)
                              THEN storedVolume.v
                              ELSE el[e].volume
                        /\ \A x \in EnforceElems \ {e} : el'[x] = el[x]
          /\ \A e \in EnforceElems :
                el'[e].volume # el[e].volume =>
                    \/ pageEvents' = pageEvents + 1
                    \/ \E k \in DOMAIN applyCalls :
                          ResponseStep(k) /\ applyCalls[k].element = e]_vars

\* C18 witness: a call made for an element without metadata asked the store
\* only after loadedmetadata, was answered 0.3 and set the element to it, and
\* another call's request failed and left its element at another volume.
C18_Witness ==
    \E k \in DOMAIN applyCalls :
        /\ applyCalls[k].deferred
        /\ applyCalls[k].pc = "done"
        /\ applyCalls[k].reply = Some(300)
        /\ el[applyCalls[k].element].volume = 300
        /\ \E j \in DOMAIN applyCalls :
              /\ applyCalls[j].pc = "failed"
              /\ el[applyCalls[j].element].volume # 300

\* ---------------------------------------------------------- panel claims
\* Nothing is on its way: every message sent has been handled, every storage
\* write served, and every refresh started has run to its end.
Delivered ==
    /\ bgInbox = <<>>
    /\ \A t \in Tabs : tabInbox[t] = <<>>
    /\ storageQueue = <<>>
    /\ \A c \in DOMAIN cycles : cycles[c].pc \in {"idle", "skipped", "done"}

\* The descriptors a query of tab t would return now for id.
ReportedNow(t, id) ==
    {QueryResult(t)[k] : k \in {j \in DOMAIN QueryResult(t) : QueryResult(t)[j].id = id}}

\* C9 (as claimed): after the user moved a site's slider to V and everything
\* sent has been delivered, the store holds V for the hostname, every media
\* element the slider's section was rendered with has volume V, and a query
\* reports V for it.
C9_SliderChangeEndToEnd ==
    (inputCount > 0 /\ Delivered) =>
        /\ MapGet(siteVolumes, lastInput.hostname) = Some(lastInput.volume)
        /\ \A x \in lastInput.targets :
              /\ el[doc[x[1]][x[2]]].volume = lastInput.volume
              /\ \A d \in ReportedNow(x[1], x[2]) : d.volume = lastInput.volume

\* The tabs of a sequence of tab entries.
EntryTabs(tabs) == {tabs[k].tab : k \in DOMAIN tabs}

\* The refresh c renders in this step.
RenderStep(c) == cycles[c].pc = "queries" /\ cycles'[c].pc = "done"

\* A site slider's input event is handled in this step.
InputStep == inputCount' = inputCount + 1

\* The two tabs share a hostname and both returned media to the refresh c that
\* renders.
BothReturned(c) ==
    /\ \A t \in Tabs : Hostname(t) = Hostname(1)
    /\ EntryTabs(cycles'[c].mediaTabs) = Tabs

\* The view v shows all the tabs in the one section of their hostname.
ShownTogether(v) ==
    /\ DOMAIN v = {Hostname(1)}
    /\ EntryTabs(v[Hostname(1)]) = Tabs

\* The volume commands that address every media descriptor of tab t's entry
\* in a section.
ExpectedCommands(tabs, t, volume) ==
    LET k == CHOOSE j \in DOMAIN tabs : tabs[j].tab = t
        list == tabs[k].mediaElements
    IN  [j \in DOMAIN list |->
            [m |-> AgentMessage("volume", {}, list[j].id, volume, NaN, 0), cycle |-> 0]]

\* The input event sends the new volume to every media of every tab.
IssuedToAll ==
    \A t \in Tabs :
        /\ t \in EntryTabs(view[lastInput'.hostname])
        /\ ExpectedCommands(view[lastInput'.hostname], t, lastInput'.volume) # <<>>
        /\ tabInbox'[t] =
              tabInbox[t] \o ExpectedCommands(view[lastInput'.hostname], t, lastInput'.volume)

\* C10 (as claimed): when two tabs with detected media share a hostname, a
\* render shows both under one site section, and moving a site slider sends
\* the new volume to the media of both tabs.
C10_SharedHostnameOneSection ==
    [][/\ \A c \in DOMAIN cycles :
            (RenderStep(c) /\ BothReturned(c)) => ShownTogether(view')
       /\ (InputStep /\ (\A t \in Tabs : Hostname(t) = Hostname(1) /\ QueryResult(t) # <<>>))
             => IssuedToAll]_vars

\* C10 (amended): when two tabs with detected media share a hostname and the
\* foreground tab is not among the tabs that returned media, a render shows
\* both under one site section; moving the slider of such a section sends the
\* new volume to every media of both tabs.
C10_SharedHostnameBackground ==
    [][/\ \A c \in DOMAIN cycles :
            (RenderStep(c) /\ BothReturned(c) /\ cycles[c].active \notin Tabs)
                => ShownTogether(view')
       /\ (InputStep /\ ShownTogether(view)) => IssuedToAll]_vars

\* C10 witness: with another tab in the foreground both tabs are shown in one
\* section and its slider was moved, addressing media of both tabs.
C10_Witness ==
    /\ activeTab = OtherTab
    /\ inputCount > 0
    /\ ShownTogether(view)
    /\ {x[1] : x \in lastInput.targets} = Tabs
    /\ \A t \in Tabs : el[doc[t][1]].volume = lastInput.volume
    /\ lastInput.volume # 800

\* The tab entries of a view.
ViewEntries(v) == UNION {Range(v[h]) : h \in DOMAIN v}

\* C11: at every render of a refresh, if the foreground tab is among the tabs
\* that returned media the view is one site group holding exactly that tab's
\* entry; otherwise the view holds exactly the entries of the tabs that
\* returned media, each under the group of its hostname, one group per
\* distinct hostname and no entry twice.
C11_FocusOrGrouped ==
    [][\A c \in DOMAIN cycles :
          RenderStep(c) =>
             LET mediaTabs == cycles'[c].mediaTabs
                 active == cycles[c].active
             IN  IF active \in EntryTabs(mediaTabs)
                 THEN /\ DOMAIN view' = {Hostname(active)}
                      /\ Len(view'[Hostname(active)]) = 1
                      /\ view'[Hostname(active)][1].tab = active
                      /\ view'[Hostname(active)][1] \in Range(mediaTabs)
                 ELSE /\ DOMAIN view' = {Hostname(t) : t \in EntryTabs(mediaTabs)}
                      /\ ViewEntries(view') = Range(mediaTabs)
                      /\ \A h \in DOMAIN view' :
                            /\ \A k \in DOMAIN view'[h] : Hostname(view'[h][k].tab) = h
                            /\ Len(view'[h]) = Cardinality(EntryTabs(view'[h]))]_vars

\* C11 witness: a refresh rendered while the foreground tab and another tab
\* of the same site had both returned media, and the view is the foreground
\* tab alone.
C11_Witness ==
    \E c \in DOMAIN cycles :
        /\ cycles[c].pc = "done"
        /\ cycles[c].active \in Tabs
        /\ EntryTabs(cycles[c].mediaTabs) = Tabs
        /\ Hostname(1) = Hostname(2)
        /\ DOMAIN view = {Hostname(cycles[c].active)}
        /\ EntryTabs(view[Hostname(cycles[c].active)]) = {cycles[c].active}

\* A refresh is requested in this step while the panel is and stays in
\* UserInteracting.
RefreshWhileInteracting ==
    /\ refreshCount' = refreshCount + 1
    /\ isUserInteracting
    /\ isUserInteracting'

\* C12: a refresh requested while the user is interacting sends no message to
\* the store or to any tab, changes neither the view nor the panel's table,
\* and is over at once: it never takes a later step.
C12_RefreshSkippedWhileInteracting ==
    [][/\ RefreshWhileInteracting =>
             /\ bgInbox' = bgInbox
             /\ tabInbox' = tabInbox
             /\ view' = view
             /\ popupSiteVolumes' = popupSiteVolumes
             /\ cycles'[refreshCount'].pc = "skipped"
       /\ \A c \in DOMAIN cycles :
             cycles[c].pc = "skipped" => cycles'[c] = cycles[c]]_vars

\* C12 witness: a polling tick was skipped during an interaction that began
\* on a rendered view, while an earlier refresh had rendered.
C12_Witness ==
    /\ isUserInteracting
    /\ DOMAIN view # {}
    /\ \E c \in DOMAIN cycles : cycles[c].pc = "skipped"

\* The panel returns to Polling in this step.
ReturnStep == isUserInteracting /\ ~isUserInteracting'

C17_NoRefreshEffectWhileInteracting ==
    [][(isUserInteracting /\ isUserInteracting') =>
          /\ \A c \in DOMAIN cycles : ~RenderStep(c)
          /\ view' = view
          /\ popupSiteVolumes' # popupSiteVolumes => InputStep]_vars

\* The refresh c takes up the reply of tab t in this step.
ReplyStep(c, t) ==
    /\ cycles[c].pc = "queries"
    /\ t \in cycles[c].pending
    /\ t \notin cycles'[c].pending

\* The messages sent to tab t in this step.
SentTo(t) == SubSeq(tabInbox'[t], Len(tabInbox[t]) + 1, Len(tabInbox'[t]))

\* The ids of the media descriptors of a list whose volume is not v.
IdsNotAt(list, v) == {list[k].id : k \in {j \in DOMAIN list : list[j].volume # v}}

\* C19: when a refresh takes up the media list a tab returned, it sends that
\* tab one volume command carrying the hostname's locked volume for each
\* returned element whose reported volume differs from it, and nothing else
\* to any tab; nothing at all when the hostname has no locked volume.
C19_CorrectiveCommands ==
    [][\A c \in DOMAIN cycles : \A t \in Tabs :
          ReplyStep(c, t) =>
             LET list == cycles[c].replies[t].list
                 locked == MapGet(popupSiteVolumes, Hostname(t))
                 sent == SentTo(t)
                 due == IF locked.some THEN IdsNotAt(list, locked.v) ELSE {}
             IN  /\ \A u \in Tabs \ {t} : tabInbox'[u] = tabInbox[u]
                 /\ tabInbox'[t] = tabInbox[t] \o sent
                 /\ \A k \in DOMAIN sent :
                       /\ sent[k].m.cmd = "volume"
                       /\ sent[k].m.volume = locked.v
                 /\ {sent[k].m.id : k \in DOMAIN sent} = due
                 /\ Len(sent) = Cardinality(due)]_vars

\* C19 witness: the foreground tab alone is shown, and the background tab of
\* the same site, which no slider addresses, has a corrective command for 0.3
\* on its way while its element is still at 0.8.
C19_Witness ==
    /\ activeTab = 1
    /\ Hostname(1) = Hostname(2)
    /\ DOMAIN view = {Hostname(1)}
    /\ EntryTabs(view[Hostname(1)]) = {1}
    /\ tabInbox[2] # <<>>
    /\ Head(tabInbox[2]).m.cmd = "volume"
    /\ Head(tabInbox[2]).m.volume = 300
    /\ el[doc[2][1]].volume = 800

\* The tabs of a set of tab entries.
EntrySetTabs(entries) == {x.tab : x \in entries}

\* The query of tab t of the refresh c fails in this step.
QueryFailsStep(c, t) == ReplyStep(c, t) /\ t \notin Tabs

\* What a failing query does and does not do: it adds no entry and sends
\* nothing, the refresh goes on and renders as soon as no query is
\* outstanding, the entries of the tabs that returned media are all kept until
\* then, and the view never shows the failing tab.
FailureSwallowed ==
    \A c \in DOMAIN cycles :
        /\ \A t \in cycles[c].pending :
              QueryFailsStep(c, t) =>
                 /\ cycles'[c].mediaTabs = cycles[c].mediaTabs
                 /\ tabInbox' = tabInbox
                 /\ cycles'[c].pc \in {"queries", "done"}
                 /\ (cycles'[c].pc = "queries" => view' = view)
        /\ (cycles[c].pc = "queries" /\ cycles'[c].pending = {}) => RenderStep(c)
        /\ \A t \in Tabs :
              (ReplyStep(c, t) /\ cycles[c].replies[t].list # <<>>)
                  => t \in EntryTabs(cycles'[c].mediaTabs)
        /\ cycles[c].pc = "queries"
              => Range(cycles[c].mediaTabs) \subseteq Range(cycles'[c].mediaTabs)
        /\ RenderStep(c) => ViewEntries(view') \subseteq Range(cycles'[c].mediaTabs)

\* C20 (as claimed): a tab whose query fails adds no entry, and the refresh
\* still renders: the view then shows every tab that returned media.
C20_FailingTabSwallowed ==
    [][/\ FailureSwallowed
       /\ \A c \in DOMAIN cycles :
             RenderStep(c) =>
                EntrySetTabs(ViewEntries(view')) = EntryTabs(cycles'[c].mediaTabs)]_vars

\* C20 (amended): a tab whose query fails adds no entry, and the refresh still
\* renders: the view then shows the foreground tab alone if it returned media,
\* and else every tab that returned media.
C20_FailingTabSwallowedFocus ==
    [][/\ FailureSwallowed
       /\ \A c \in DOMAIN cycles :
             RenderStep(c) =>
                EntrySetTabs(ViewEntries(view')) =
                    IF cycles[c].active \in EntryTabs(cycles'[c].mediaTabs)
                    THEN {cycles[c].active}
                    ELSE EntryTabs(cycles'[c].mediaTabs)]_vars

\* C20 witness: the foreground tab runs no tab agent, so its query failed, and
\* the refresh rendered the two other tabs, which returned media.
C20_Witness ==
    \E c \in DOMAIN cycles :
        /\ cycles[c].pc = "done"
        /\ cycles[c].active = OtherTab
        /\ EntryTabs(cycles[c].mediaTabs) = Tabs
        /\ EntrySetTabs(ViewEntries(view)) = Tabs

\* The container shows exactly the site groups: one site section per
\* hostname of sites and no other, and in each one tab section per tab of
\* the group and no other.
ShowsGroups(container, sites) ==
    /\ Len(container.sections) = Cardinality(DOMAIN sites)
    /\ {container.sections[k].hostname : k \in DOMAIN container.sections} = DOMAIN sites
    /\ \A k \in DOMAIN container.sections :
          LET section == container.sections[k]
          IN  section.hostname \in DOMAIN sites =>
                 /\ Len(section.tabs) = Len(sites[section.hostname])
                 /\ {section.tabs[j].tab : j \in DOMAIN section.tabs}
                       = EntryTabs(sites[section.hostname])

\* Every refresh that renders leaves exactly its site groups in the
\* container, whatever the container held before.
RendersGroups ==
    \A c \in DOMAIN cycles :
        RenderStep(c) =>
            ShowsGroups(appContainer', Sites(cycles'[c].mediaTabs, cycles[c].active))

\* C21 (as claimed): after every refresh that completes without error the
\* view consists of exactly the site sections of the refresh's site groups
\* and in each exactly the tab sections of the group's tabs, whatever was
\* shown before; with at least one site group, no empty-state or error panel
\* shown earlier is displayed any more.
C21_ViewIsCycleGroups ==
    [][/\ RendersGroups
       /\ \A c \in DOMAIN cycles :
             (RenderStep(c) /\ cycles'[c].mediaTabs # <<>>)
                 => appContainer'.panel = "none"]_vars

\* The refresh c fails in this step.
FailStep(c) == cycles[c].pc # "error" /\ cycles'[c].pc = "error"

\* refreshMediaList is called in this step.
StartStep == refreshCount' = refreshCount + 1

\* C22: no failure halts the polling. A refresh that fails shows the error
\* panel and leaves the interval armed; the interval is armed from the first
\* refresh on, so that a tick can start a refresh whatever state the earlier
\* refreshes are in; every tick in Polling starts a refresh; and after a
\* failed refresh a next one is started.
C22_PollingSurvivesFailure ==
    /\ [](refreshCount > 0 => refreshInterval)
    /\ []((refreshInterval /\ refreshCount < MaxRefreshes) => ENABLED Tick)
    /\ [][/\ \A c \in DOMAIN cycles :
               FailStep(c) => /\ appContainer'.panel = "error"
                              /\ refreshInterval'
          /\ (StartStep /\ ~isUserInteracting) => cycles'[refreshCount'].pc = "sync"]_vars
    /\ \A c \in 1..(MaxRefreshes - 1) :
          (cycles[c].pc = "error") ~> (cycles[c + 1].pc # "idle")

\* C22 witness: the first refresh failed and the error panel was shown; the
\* next tick started a refresh that ran to its end and rendered a site
\* section.
C22_Witness ==
    /\ cycles[1].pc = "error"
    /\ cycles[2].pc = "done"
    /\ refreshInterval
    /\ appContainer.sections # <<>>

\* C23: a refresh renders only once every query it sent has resolved or
\* failed. The step that renders leaves no query of the refresh outstanding;
\* a query leaves the outstanding ones only when its reply has arrived or it
\* has failed; a step of a refresh that leaves one of its queries outstanding
\* changes neither the view nor the container; and nothing is rendered but by
\* a refresh that ends.
C23_RenderAfterAllQueries ==
    [][/\ \A c \in DOMAIN cycles :
             /\ RenderStep(c) => cycles'[c].pending = {}
             /\ cycles[c].pc = "queries" =>
                   /\ cycles'[c].pending \subseteq cycles[c].pending
                   /\ \A t \in (cycles[c].pending \ cycles'[c].pending) \cap Tabs :
                         cycles[c].replies[t].has
             /\ (cycles'[c] # cycles[c] /\ cycles'[c].pc = "queries"
                    /\ cycles'[c].pending # {})
                   => (view' = view /\ appContainer' = appContainer)
       /\ (view' # view \/ appContainer' # appContainer)
             => \E c \in DOMAIN cycles : RenderStep(c) \/ FailStep(c)]_vars

\* C23 witness: one tab has answered a refresh with media, another query of
\* the refresh is outstanding, and the popup still shows what it showed
\* before: the loader.
C23_Witness ==
    \E c \in DOMAIN cycles :
        /\ cycles[c].pc = "queries"
        /\ cycles[c].mediaTabs # <<>>
        /\ cycles[c].pending # {}
        /\ appContainer = InitialLoader
        /\ view = EmptyMap

\* A mute-tab button is clicked in this step.
ClickStep == clickCount' = clickCount + 1

\* The muted flags of the media elements.
ElementMuted == [e \in DOMAIN el |-> el[e].muted]

\* C26 (as claimed): each click on a mute-tab button sets the tab-level mute
\* of one tab to the negation of what it is at the click and leaves the
\* other tabs alone, and it changes no media element's muted flag.
C26_MuteTabToggles ==
    [][ClickStep =>
          /\ \E t \in Tabs : tabMuted' = [tabMuted EXCEPT ![t] = ~tabMuted[t]]
          /\ ElementMuted' = ElementMuted]_vars

\* The refresh c has rendered or shown the error panel.
Rendered(c) == cycles[c].pc \in {"done", "error"}

CorrectiveVolumes(t) == {SentTo(t)[k].m.volume : k \in DOMAIN SentTo(t)}

\* No corrective command of this step carries a locked volume older than
\* the one the user has set for the hostname with the slider.
NotOlderThanSlider ==
    \A c \in DOMAIN cycles : \A t \in Tabs :
        (ReplyStep(c, t) /\ inputCount > 0 /\ lastInput.hostname = Hostname(t))
            => CorrectiveVolumes(t) \subseteq {lastInput.volume}

\* C28 (as claimed): every corrective volume command a refresh sends carries
\* the value the store holds for the hostname when the command is sent, and
\* none carries a locked volume older than the one the user has set with the
\* slider.
C28_CorrectiveCarriesStored ==
    [][/\ \A c \in DOMAIN cycles : \A t \in Tabs :
             ReplyStep(c, t) =>
                \A v \in CorrectiveVolumes(t) :
                    MapGet(siteVolumes, Hostname(t)) = Some(v)
       /\ NotOlderThanSlider]_vars

\* The call k of applyStoredVolume looks at its response in this step.
ApplyStep(k) == applyCalls[k].pc = "answered" /\ applyCalls'[k].pc = "done"

\* C29 (as claimed): the enforcement never replaces a volume that a volume
\* command of the panel has applied with an older stored value. When a call
\* of applyStoredVolume looks at its getVolume response after the store has
\* handled the slider's setVolume(H,V1) and the element is at V1, the element
\* is at V1 afterwards.
C29_EnforcementKeepsNewVolume ==
    [][\A k \in DOMAIN applyCalls :
          (/\ ApplyStep(k)
           /\ inputCount > 0
           /\ lastInput.hostname = tabHost[applyCalls[k].tab]
           /\ lastSet[lastInput.hostname] = Some(lastInput.volume)
           /\ MapGet(siteVolumes, lastInput.hostname) = Some(lastInput.volume)
           /\ el[applyCalls[k].element].volume = lastInput.volume)
              => el'[applyCalls[k].element].volume = lastInput.volume]_vars

\* ---------------------------------------------------------- store claims
HostsSet == {h \in Hosts : lastSet[h].some}

\* The startup load ends in this step after a read that failed or held no
\* siteVolumes key.
EmptyLoadStep ==
    /\ loadState = "resolved"
    /\ loadState' = "done"
    /\ ~(loadResult.ok /\ loadResult.data.has)

\* The startup load of the running process is over and its read had failed or
\* held no siteVolumes key.
EmptyLoad == loadState = "done" /\ ~(loadResult.ok /\ loadResult.data.has)

\* A new background process starts in this step.
RestartStep == restarts' = restarts + 1

\* The reads of durable storage that are issued and not yet settled.
PendingReads == {k \in DOMAIN storageQueue : storageQueue[k].op = "get"}

\* The process issued its one read at its start and issues no other: a read
\* is outstanding exactly while the load is pending, and a load that is over
\* stays over until the process ends.
ReadOnce ==
    /\ [](Cardinality(PendingReads) = (IF loadState = "pending" THEN 1 ELSE 0))
    /\ [][/\ Cardinality(PendingReads') > Cardinality(PendingReads) => RestartStep
          /\ (loadState # "pending" /\ loadState' = "pending") => RestartStep]_vars

\* After a load that brought nothing the listener answers every request.
KeepsServing ==
    EmptyLoad => /\ ENABLED OnGetVolume
                 /\ ENABLED OnGetAllVolumes
                 /\ (setCount < MaxSets => ENABLED OnSetVolume)

\* C15 (as claimed): when the startup read failed or held no siteVolumes key,
\* the table is empty when the load ends; the read is issued once per process
\* and the listener keeps serving.
C15_EmptyAfterFailedLoad ==
    /\ [][EmptyLoadStep => siteVolumes' = EmptyMap]_vars
    /\ ReadOnce
    /\ []KeepsServing

\* C15 (amended): when the startup read failed or held no siteVolumes key the
\* load leaves the table as it is: empty, with getVolume absent and
\* getAllVolumes empty, as long as the process has handled no setVolume, and
\* else holding what was set; the read is issued once per process and the
\* listener keeps serving.
C15_FailedLoadLeavesTable ==
    /\ [][EmptyLoadStep => siteVolumes' = siteVolumes]_vars
    /\ [](EmptyLoad =>
            /\ \A h \in Hosts :
                  MapGet(siteVolumes, h) = (IF setThisLife[h] THEN lastSet[h] ELSE None)
            /\ (response.cmd = "getVolume" /\ ~setThisLife[response.hostname])
                  => response.one = None
            /\ (response.cmd = "getAllVolumes" /\ \A h \in Hosts : ~setThisLife[h])
                  => response.all = EmptyMap)
    /\ ReadOnce
    /\ []KeepsServing

\* C15 witness: the read failed, the load is over, and getAllVolumes was
\* answered after it with an empty mapping.
C15_Witness ==
    /\ loadState = "done"
    /\ ~loadResult.ok
    /\ response.cmd = "getAllVolumes"
    /\ response.loaded
    /\ response.all = EmptyMap
    /\ storage.has

\* The write of the last setVolume handled for h fails in this step.
WriteFailsStep(h) == ~failedWrite[h] /\ failedWrite'[h]

\* A step that fails a write keeps the table, sends nothing to anybody and
\* issues no new write.
FailureHandled ==
    [][(\E h \in Hosts : WriteFailsStep(h)) =>
          /\ siteVolumes' = siteVolumes
          /\ response' = response
          /\ storageQueue' = Tail(storageQueue)]_vars

\* C16 (as claimed): once the write triggered by setVolume(H,V) has failed
\* and while no other setVolume(H) is handled, the table of the process holds
\* V for H, a getVolume(H) answered then returns V and a getAllVolumes
\* answered then maps H to V; the failing step itself changes no table, sends
\* nothing and issues no new write.
C16_FailedWriteKeepsValue ==
    /\ [](\A h \in Hosts : failedWrite[h] => MapGet(siteVolumes, h) = lastSet[h])
    /\ [][\A h \in Hosts :
            (failedWrite[h] /\ failedWrite'[h] /\ response' # response) =>
               /\ (response'.cmd = "getVolume" /\ response'.hostname = h)
                     => response'.one = lastSet[h]
               /\ response'.cmd = "getAllVolumes"
                     => MapGet(response'.all, h) = lastSet[h]]_vars
    /\ FailureHandled

\* The mapping durable storage holds: that of the siteVolumes key, empty
\* when there is no key.
DurableMapping == IF storage.has THEN MapFromObject(storage.obj) ELSE EmptyMap

\* A write handed to storage has not been served yet.
WriteInFlight == \E k \in DOMAIN storageQueue : storageQueue[k].op = "set"

\* C25 (as claimed): whenever no durable write is in flight and every write
\* issued so far succeeded, the mapping in durable storage equals the table
\* in memory. Read here in the claim's favour: only once the startup load of
\* the running process is over, and only while no storage request at all,
\* read or write, has failed.
C25_DurableEqualsTable ==
    (loadState = "done" /\ ~WriteInFlight /\ ~ioFailed) => DurableMapping = siteVolumes

\* C1 (as claimed): a getVolume(H) answered after the running process handled
\* setVolume(H,V) returns V, whatever else happened in between, the startup
\* load completing included.
C1_GetReturnsLastSet ==
    (response.cmd = "getVolume" /\ setThisLife[response.hostname])
        => response.one = lastSet[response.hostname]

\* C2 (as claimed): after setVolume(H,V) was handled and the process was
\* restarted and has reloaded its table, with no storage request failed,
\* getVolume(H) in the new process returns V.
C2_RoundTrip ==
    (/\ response.cmd = "getVolume"
     /\ response.loaded
     /\ restarts > 0
     /\ ~ioFailed
     /\ lastSet[response.hostname].some
     /\ ~setThisLife[response.hostname])
        => response.one = lastSet[response.hostname]

\* C3: in a process started on empty storage, getAllVolumes returns exactly the
\* hostnames named by the setVolume messages handled so far, each with the
\* value of the last setVolume for it.
C3_GetAllLastWriteWins ==
    (response.cmd = "getAllVolumes" /\ startedEmpty /\ restarts = 0)
        => response.all = [h \in HostsSet |-> lastSet[h].v]

\* C3 witness: both hostnames were set, one of them twice, and getAllVolumes
\* was answered after the startup load had completed.
C3_Witness ==
    /\ response.cmd = "getAllVolumes"
    /\ response.loaded
    /\ startedEmpty
    /\ restarts = 0
    /\ setCount = 3
    /\ DOMAIN response.all = Hosts

====
